---- MODULE Spec2Model ----
(***************************************************************************)
(* Contact discovery pipeline of SyntalysTech/scrapper.                    *)
(*                                                                         *)
(* The module models the POST handler of src/app/api/scrape/route.ts       *)
(* (source fan-out, deduplication, deep-crawl enrichment, verification,    *)
(* ranking, filtering) together with the pure helpers it calls.            *)
(*                                                                         *)
(* Text is modelled as a sequence of one-character strings, so that the    *)
(* normalisation, validation and formatting helpers are computed the way   *)
(* the code computes them.  An absent optional text field (undefined) is   *)
(* the empty sequence: every test the code makes on such a field is a      *)
(* truthiness test, for which undefined and "" coincide.                   *)
(***************************************************************************)
EXTENDS Integers, Sequences, FiniteSets, TLC

\* ------------------------------------------------------------------------
\* Text helpers (String.prototype methods used by the code)
\* ------------------------------------------------------------------------

UpperChars == <<"A","B","C","D","E","F","G","H","I","J","K","L","M","N","O","P","Q","R","S","T","U","V","W","X","Y","Z">>

LowerChars == <<"a","b","c","d","e","f","g","h","i","j","k","l","m","n","o","p","q","r","s","t","u","v","w","x","y","z">>

Digits == {"0","1","2","3","4","5","6","7","8","9"}

Letters == {LowerChars[i] : i \in 1..26}

Whitespace == {" ", "\t", "\n"}

\* [A-Za-z0-9_], the word characters of \b
WordChars == Letters \cup {UpperChars[i] : i \in 1..26} \cup Digits \cup {"_"}

LowerChar(c) == IF \E i \in 1..26 : UpperChars[i] = c
                THEN LowerChars[CHOOSE i \in 1..26 : UpperChars[i] = c]
                ELSE c

ToLower(s) == [i \in 1..Len(s) |-> LowerChar(s[i])]

StartsWith(s, p) == Len(p) <= Len(s) /\ SubSeq(s, 1, Len(p)) = p

EndsWith(s, p) == Len(p) <= Len(s) /\ SubSeq(s, Len(s) - Len(p) + 1, Len(s)) = p

Includes(s, p) == \E i \in 1..(Len(s) - Len(p) + 1) : SubSeq(s, i, i + Len(p) - 1) = p

IncludesChar(s, c) == \E i \in 1..Len(s) : s[i] = c

Slice(s, from, to) == SubSeq(s, from + 1, IF to < Len(s) THEN to ELSE Len(s))

RECURSIVE TrimStart(_)
TrimStart(s) == IF s # <<>> /\ Head(s) \in Whitespace THEN TrimStart(Tail(s)) ELSE s

RECURSIVE TrimEnd(_)
TrimEnd(s) == IF s # <<>> /\ s[Len(s)] \in Whitespace THEN TrimEnd(SubSeq(s, 1, Len(s) - 1)) ELSE s

\* A method chained on the value of the expression before it: Op applied
\* to x evaluated once
Chain(Op(_), x) == CHOOSE y \in {Op(v) : v \in {x}} : TRUE

Trim(s) == Chain(TrimEnd, TrimStart(s))

\* s.replace(/[^...]/g, ''): keep the characters of a class
RECURSIVE KeepChars(_, _)
KeepChars(s, class) ==
  IF s = <<>> THEN <<>>
  ELSE IF Head(s) \in class THEN <<Head(s)>> \o KeepChars(Tail(s), class)
       ELSE KeepChars(Tail(s), class)

\* s.replace(/\s+/g, ' ')
RECURSIVE CollapseWhitespace(_)
CollapseWhitespace(s) ==
  IF s = <<>> THEN <<>>
  ELSE IF Head(s) \in Whitespace
       THEN <<" ">> \o CollapseWhitespace(TrimStart(Tail(s)))
       ELSE <<Head(s)>> \o CollapseWhitespace(Tail(s))

\* s.split(c): the parts between the separators, [""] for the empty string
RECURSIVE Split(_, _)
Split(s, c) ==
  IF ~IncludesChar(s, c) THEN <<s>>
  ELSE LET i == CHOOSE k \in 1..Len(s) : s[k] = c /\ \A j \in 1..(k - 1) : s[j] # c
       IN  <<SubSeq(s, 1, i - 1)>> \o Split(SubSeq(s, i + 1, Len(s)), c)

\* parts.join('')
RECURSIVE Join(_)
Join(parts) == IF parts = <<>> THEN <<>> ELSE Head(parts) \o Join(Tail(parts))

\* Array.from(new Set(xs)): first occurrences, in insertion order
RECURSIVE Distinct(_)
Distinct(xs) ==
  IF xs = <<>> THEN <<>>
  ELSE LET r == Distinct(SubSeq(xs, 1, Len(xs) - 1))
           x == xs[Len(xs)]
       IN  IF \E i \in 1..Len(r) : r[i] = x THEN r ELSE Append(r, x)

\* xs.filter(P) for a set of accepted values
RECURSIVE FilterSeq(_, _)
FilterSeq(xs, ok) ==
  IF xs = <<>> THEN <<>>
  ELSE IF Head(xs) \in ok THEN <<Head(xs)>> \o FilterSeq(Tail(xs), ok)
       ELSE FilterSeq(Tail(xs), ok)

\* ------------------------------------------------------------------------
\* Validator (route.ts): static tables
\* ------------------------------------------------------------------------

IGNORE_EMAIL_DOMAINS ==
  { <<"e","x","a","m","p","l","e",".","c","o","m">>, <<"t","e","s","t",".","c","o","m">>,
    <<"l","o","c","a","l","h","o","s","t">>, <<"s","e","n","t","r","y",".","i","o">>,
    <<"w","i","x","p","r","e","s","s",".","c","o","m">>, <<"p","l","a","c","e","h","o","l","d","e","r",".","c","o","m">>,
    <<"y","o","u","r","d","o","m","a","i","n",".","c","o","m">>, <<"d","o","m","a","i","n",".","c","o","m">>,
    <<"e","m","a","i","l",".","c","o","m">>, <<"w","3",".","o","r","g">>,
    <<"s","c","h","e","m","a",".","o","r","g">>, <<"s","e","n","t","r","y","-","n","e","x","t",".","w","i","x","p","r","e","s","s",".","c","o","m">>,
    <<"m","a","i","l","i","n","a","t","o","r",".","c","o","m">>, <<"y","e","l","p",".","c","o","m">>,
    <<"y","e","l","p",".","e","s">>, <<"f","a","c","e","b","o","o","k",".","c","o","m">>,
    <<"t","w","i","t","t","e","r",".","c","o","m">>, <<"i","n","s","t","a","g","r","a","m",".","c","o","m">>,
    <<"l","i","n","k","e","d","i","n",".","c","o","m">>, <<"g","o","o","g","l","e",".","c","o","m">>,
    <<"g","o","o","g","l","e","a","p","i","s",".","c","o","m">>, <<"g","s","t","a","t","i","c",".","c","o","m">> }

IGNORE_EXTENSIONS ==
  { <<".","p","n","g">>, <<".","j","p","g">>, <<".","j","p","e","g">>, <<".","g","i","f">>,
    <<".","s","v","g">>, <<".","w","e","b","p">>, <<".","c","s","s">>, <<".","j","s">>,
    <<".","w","o","f","f">>, <<".","w","o","f","f","2">>, <<".","t","t","f">>, <<".","i","c","o">> }

FakeSubstrings ==
  { <<"w","i","n","d","o","w">>, <<"l","o","c","a","t","i","o","n">>, <<"d","o","c","u","m","e","n","t">>,
    <<".","w","w","w",".">>, <<"d","r","o","p","d","o","w","n">>, <<"o","r","i","g","i","n">>,
    <<"r","o","u","n","d">>, <<"f","u","n","c","t","i","o","n">>, <<"r","e","t","u","r","n">>,
    <<"c","o","n","s","t">>, <<"l","e","t","@">>, <<".",".">>,
    <<"@","-">>, <<"-","@">>, <<"a","s","e","t",".">>,
    <<"i","v","e",".">>, <<"a","d","m","i","n","i","s","t","r","@">>, <<"e",".","d","@">> }

FakeSuffixes ==
  { <<".","b","b","o","x">>, <<".","l","a","n","d">>, <<".","l","o","c","a","l">>,
    <<".","i","n","t","e","r","n","a","l">>, <<".","i","n","v","a","l","i","d">>, <<".","t","e","s","t">>,
    <<".","e","l">>, <<".","j","s">>, <<".","t","s">>,
    <<".","j","s","x">>, <<".","t","s","x">> }

VALID_TLDS ==
  { <<"c","o","m">>, <<"e","s">>, <<"o","r","g">>, <<"n","e","t">>,
    <<"e","d","u">>, <<"g","o","v">>, <<"i","n","f","o">>, <<"b","i","z">>,
    <<"c","o">>, <<"i","o">>, <<"m","e">>, <<"e","u">>,
    <<"d","e">>, <<"f","r">>, <<"i","t">>, <<"u","k">>,
    <<"p","t">>, <<"m","x">>, <<"a","r">>, <<"c","l">>,
    <<"c","o",".","u","k">>, <<"c","o","m",".","e","s">>, <<"c","a","t">>, <<"g","a","l">>,
    <<"e","u","s">>, <<"m","a","d","r","i","d">>, <<"b","a","r","c","e","l","o","n","a">>, <<"o","n","l","i","n","e">>,
    <<"s","h","o","p">>, <<"s","t","o","r","e">>, <<"t","e","c","h">>, <<"d","e","v">>,
    <<"a","p","p">>, <<"c","l","o","u","d">>, <<"e","m","a","i","l">>, <<"m","a","i","l">>,
    <<"w","e","b">>, <<"s","i","t","e">>, <<"b","l","o","g">>, <<"p","r","o">>,
    <<"v","e","t">>, <<"h","e","a","l","t","h">>, <<"c","l","i","n","i","c">>, <<"c","e","n","t","e","r">>,
    <<"c","a","r","e">> }

CodeLocalParts ==
  { <<"l","s">>, <<"m">>, <<"h">>, <<"a">>, <<"b">>,
    <<"c">>, <<"x">>, <<"y">>, <<"z">>, <<"e",".","d">> }

\* The characters of /[<>()[\]\\,;:\s"']/
ForbiddenEmailChars == {"<", ">", "(", ")", "[", "]", "\\", ",", ";", ":", "\"", "'"} \cup Whitespace

\* ------------------------------------------------------------------------
\* Validator (route.ts): isValidEmail, isValidPhone, formatPhoneDisplay
\* ------------------------------------------------------------------------

\* /^[a-z]{1,3}@\./
FakeShortLocal(s) ==
  \E n \in 1..3 : /\ Len(s) >= n + 2
                  /\ \A i \in 1..n : s[i] \in Letters
                  /\ s[n + 1] = "@"
                  /\ s[n + 2] = "."

\* /\bvar\b/
FakeVarWord(s) ==
  \E i \in 1..(Len(s) - 2) :
     /\ SubSeq(s, i, i + 2) = <<"v","a","r">>
     /\ (i = 1 \/ s[i - 1] \notin WordChars)
     /\ (i + 2 = Len(s) \/ s[i + 3] \notin WordChars)

\* /@\d+\./
FakeNumericDomain(s) ==
  \E i \in 1..Len(s) : \E j \in (i + 2)..Len(s) :
     /\ s[i] = "@"
     /\ s[j] = "."
     /\ \A k \in (i + 1)..(j - 1) : s[k] \in Digits

\* /[a-z]@[a-z]\./
FakeOneLetterDomain(s) ==
  \E i \in 1..(Len(s) - 3) :
     /\ s[i] \in Letters
     /\ s[i + 1] = "@"
     /\ s[i + 2] \in Letters
     /\ s[i + 3] = "."

\* /@[^.]+$/
FakeDotlessDomain(s) ==
  \E i \in 1..(Len(s) - 1) : s[i] = "@" /\ \A j \in (i + 1)..Len(s) : s[j] # "."

\* /^[^@]*@[^.]{1,2}\./
FakeTinyDomain(s) ==
  /\ IncludesChar(s, "@")
  /\ LET k == CHOOSE i \in 1..Len(s) : s[i] = "@" /\ \A j \in 1..(i - 1) : s[j] # "@"
     IN  \/ Len(s) >= k + 2 /\ s[k + 1] # "." /\ s[k + 2] = "."
         \/ Len(s) >= k + 3 /\ s[k + 1] # "." /\ s[k + 2] # "." /\ s[k + 3] = "."

\* FAKE_EMAIL_PATTERNS.some(pattern => pattern.test(lower))
MatchesFakePattern(lower) ==
  \/ FakeShortLocal(lower)
  \/ \E p \in FakeSubstrings : Includes(lower, p)
  \/ FakeVarWord(lower)
  \/ FakeNumericDomain(lower)
  \/ FakeOneLetterDomain(lower)
  \/ FakeDotlessDomain(lower)
  \/ FakeTinyDomain(lower)
  \/ \E p \in FakeSuffixes : EndsWith(lower, p)

isValidEmail(email) ==
  LET lower == Trim(ToLower(email))
      parts == Split(email, "@")
  IN  /\ ~\E d \in IGNORE_EMAIL_DOMAINS : Includes(lower, d)
      /\ ~\E e \in IGNORE_EXTENSIONS : EndsWith(lower, e)
      /\ ~MatchesFakePattern(lower)
      /\ Len(parts) = 2
      /\ Len(parts[1]) >= 2
      /\ Len(parts[2]) >= 5
      /\ IncludesChar(parts[2], ".")
      /\ LET domainParts == Split(parts[2], ".")
             tld == domainParts[Len(domainParts)]
             isKnownTld == \E v \in VALID_TLDS : EndsWith(tld, v)
         IN  /\ Len(domainParts[1]) >= 3
             /\ Len(tld) >= 2
             /\ Len(tld) <= 10
             /\ (isKnownTld \/ Len(tld) <= 4)
      /\ ~\E i \in 1..Len(email) : email[i] \in ForbiddenEmailChars
      /\ ~\E p \in CodeLocalParts : StartsWith(lower, p \o <<"@">>)
      /\ (Len(parts[1]) >= 3 \/ IncludesChar(parts[1], "."))

\* A length window that ends at 12 digits
isValidPhone_Max12(phone) ==
  LET cleaned == KeepChars(phone, Digits)
  IN  /\ Len(cleaned) >= 9
      /\ Len(cleaned) <= 12
      /\ ~(Len(cleaned) >= 2 /\ \A i \in 1..Len(cleaned) : cleaned[i] = cleaned[1])
      /\ ~StartsWith(cleaned, <<"0","0">>)

\* phone.replace(/[^\d]/g, '') and the three rejections
isValidPhone(phone) ==
  LET cleaned == KeepChars(phone, Digits)
  IN  /\ Len(cleaned) >= 9
      /\ Len(cleaned) <= 15
      /\ ~(Len(cleaned) >= 2 /\ \A i \in 1..Len(cleaned) : cleaned[i] = cleaned[1])
      /\ ~StartsWith(cleaned, <<"0","0">>)

formatPhoneDisplay(phone) ==
  LET cleaned == KeepChars(phone, Digits \cup {"+"})
  IN  IF StartsWith(cleaned, <<"+","3","4">>) /\ Len(cleaned) = 12
      THEN <<"+","3","4"," ">> \o Slice(cleaned, 3, 6) \o <<" ">> \o Slice(cleaned, 6, 9)
           \o <<" ">> \o Slice(cleaned, 9, 12)
      ELSE IF Len(cleaned) = 9
           THEN Slice(cleaned, 0, 3) \o <<" ">> \o Slice(cleaned, 3, 6) \o <<" ">> \o Slice(cleaned, 6, 9)
           ELSE cleaned

\* ------------------------------------------------------------------------
\* ContactExtractor (route.ts).  A document is what the selectors and the
\* regular expressions match in it, in document order:
\*   mailto  the targets of a[href*="mailto:"], scheme removed
\*   text    the EMAIL_REGEX matches (visible text, then the whole HTML)
\*   tel     the targets of a[href^="tel:"], scheme removed
\*   phones  the PHONE_REGEX matches (visible text, then the whole HTML)
\*   owners  the names captured by the owner patterns
\*   links   the anchors with an href: the attribute and the anchor's text
\* ------------------------------------------------------------------------

NoDoc ==
  [mailto |-> <<>>, text |-> <<>>, tel |-> <<>>, phones |-> <<>>, owners |-> <<>>,
   links |-> <<>>]

\* href.replace(/^mailto:/i, '').split('?')[0].split('#')[0].trim().toLowerCase()
MailtoTarget(href) == ToLower(Trim(Split(Split(href, "?")[1], "#")[1]))

RECURSIVE ValidMailtos(_)
ValidMailtos(hrefs) ==
  IF hrefs = <<>> THEN <<>>
  ELSE LET email == MailtoTarget(Head(hrefs))
       IN  (IF email # <<>> /\ isValidEmail(email) THEN <<email>> ELSE <<>>)
           \o ValidMailtos(Tail(hrefs))

RECURSIVE ValidTextEmails(_)
ValidTextEmails(matches) ==
  IF matches = <<>> THEN <<>>
  ELSE (IF isValidEmail(Head(matches)) THEN <<ToLower(Head(matches))>> ELSE <<>>)
       \o ValidTextEmails(Tail(matches))

\* Every source of emails sits inside `if ($)`: without a DOM handle the
\* function returns the empty list.
extractAllEmails(doc, withDom) ==
  IF withDom THEN Distinct(ValidMailtos(doc.mailto) \o ValidTextEmails(doc.text))
  ELSE <<>>

\* An extraction that formats every match, valid or not
RECURSIVE ValidPhones_Unchecked(_)
ValidPhones_Unchecked(matches) ==
  IF matches = <<>> THEN <<>>
  ELSE <<formatPhoneDisplay(Head(matches))>> \o ValidPhones_Unchecked(Tail(matches))

RECURSIVE ValidPhones(_)
ValidPhones(matches) ==
  IF matches = <<>> THEN <<>>
  ELSE (IF isValidPhone(Head(matches)) THEN <<formatPhoneDisplay(Head(matches))>> ELSE <<>>)
       \o ValidPhones(Tail(matches))

\* href.replace('tel:', '').replace(/\s/g, '')
RECURSIVE TelTargets(_)
TelTargets(hrefs) ==
  IF hrefs = <<>> THEN <<>>
  ELSE <<SelectSeq(Head(hrefs), LAMBDA c : c \notin Whitespace)>> \o TelTargets(Tail(hrefs))

\* The tel: links and the text matches need the DOM handle; the matches in
\* the whole HTML do not.
extractAllPhones(doc, withDom) ==
  Distinct((IF withDom THEN ValidPhones(TelTargets(doc.tel)) \o ValidPhones(doc.phones) ELSE <<>>)
           \o ValidPhones(doc.phones))

\* The first captured name of more than 4 and fewer than 50 characters
extractOwner(doc) ==
  LET fits == SelectSeq(doc.owners, LAMBDA o : Len(o) > 4 /\ Len(o) < 50)
  IN  IF fits = <<>> THEN <<>> ELSE Trim(fits[1])

\* ------------------------------------------------------------------------
\* BusinessResult (route.ts).  scrapedAt, a creation timestamp nothing
\* reads, is left out.  websiteStatus is NoStatus while unset.
\* ------------------------------------------------------------------------

NoStatus == -1

BusinessResult(name, email, phone, phoneVerified, website, address, source) ==
  [name |-> name, owner |-> <<>>, email |-> email, emailVerified |-> FALSE,
   phone |-> phone, phoneVerified |-> phoneVerified, website |-> website,
   websiteStatus |-> NoStatus, address |-> address, source |-> source]

First(xs) == IF xs = <<>> THEN <<>> ELSE xs[1]

\* ------------------------------------------------------------------------
\* SourceAdapters (route.ts): what each adapter makes of one matched element
\* of a response.  An element is
\*   name    the title / listing name, trimmed and cleaned
\*   emails  search adapters: EMAIL_REGEX matches of the snippet;
\*           Paginas Amarillas: the first mailto: target, if any
\*   phones  search adapters and Yelp: PHONE_REGEX matches;
\*           Paginas Amarillas: the first phone element, if any
\*   link    the result url / listing website / Yelp business path
\*   address Paginas Amarillas only
\* ------------------------------------------------------------------------

Adapters == {"DuckDuckGo", "PaginasAmarillas", "Directorios", "Yelp", "DirectSearch"}

SourceName(a) ==
  CASE a = "DuckDuckGo" -> "DuckDuckGo"
    [] a = "PaginasAmarillas" -> "Paginas Amarillas"
    [] a = "Directorios" -> "Directorios"
    [] a = "Yelp" -> "Yelp"
    [] a = "DirectSearch" -> "Direct Search"

Https == <<"h","t","t","p","s",":","/","/">>

Http == <<"h","t","t","p">>

SnippetDoc(el) == [NoDoc EXCEPT !.text = el.emails, !.phones = el.phones]

\* `https://${websiteUrl.replace(/^\/\//, '')}` unless it starts with http
SearchWebsite(link) ==
  IF link # <<>> /\ ~StartsWith(link, Http)
  THEN Https \o (IF StartsWith(link, <<"/","/">>) THEN SubSeq(link, 3, Len(link)) ELSE link)
  ELSE link

DuckDuckGoResult(el) ==
  LET emails == extractAllEmails(SnippetDoc(el), FALSE)
      phones == extractAllPhones(SnippetDoc(el), FALSE)
  IN  IF Len(el.name) > 3
      THEN <<BusinessResult(Slice(el.name, 0, 100), First(emails), First(phones),
                            phones # <<>>, SearchWebsite(el.link), <<>>, SourceName("DuckDuckGo"))>>
      ELSE <<>>

PaginasAmarillasResult(el) ==
  LET phone == First(el.phones)
      email == Split(First(el.emails), "?")[1]
  IN  IF Len(el.name) >= 3 /\ (phone # <<>> \/ el.link # <<>>)
      THEN <<BusinessResult(Slice(el.name, 0, 100),
                            IF email # <<>> /\ isValidEmail(email) THEN email ELSE <<>>,
                            IF phone # <<>> /\ isValidPhone(phone) THEN formatPhoneDisplay(phone) ELSE <<>>,
                            phone # <<>> /\ isValidPhone(phone),
                            el.link, el.address, SourceName("PaginasAmarillas"))>>
      ELSE <<>>

Google == <<"g","o","o","g","l","e">>

Maps == <<"m","a","p","s">>

DirectoriesResult(el) ==
  LET emails == extractAllEmails(SnippetDoc(el), FALSE)
      phones == extractAllPhones(SnippetDoc(el), FALSE)
      websiteUrl == SearchWebsite(el.link)
  IN  IF /\ Len(el.name) >= 5
         /\ ~Includes(ToLower(el.name), Google)
         /\ ~Includes(ToLower(el.name), Maps)
         /\ (emails # <<>> \/ phones # <<>> \/ websiteUrl # <<>>)
      THEN <<BusinessResult(Slice(el.name, 0, 100), First(emails), First(phones),
                            phones # <<>>, websiteUrl, <<>>, SourceName("Directorios"))>>
      ELSE <<>>

YelpHost == <<"h","t","t","p","s",":","/","/","w","w","w",".","y","e","l","p",".","e","s">>

Biz == <<"/","b","i","z","/">>

YelpWord == <<"Y","e","l","p">>

\* `results` is what the adapter has pushed so far (its own duplicate test)
YelpResult(results, el) ==
  LET valid == SelectSeq(el.phones, LAMBDA p : isValidPhone(p))
      phone == First(valid)
      exists == \E i \in 1..Len(results) : ToLower(results[i].name) = ToLower(el.name)
  IN  IF /\ Includes(el.link, Biz)
         /\ ~IncludesChar(el.link, "?")
         /\ ~IncludesChar(el.link, "#")
         /\ Len(el.name) > 3
         /\ Len(el.name) < 80
         /\ ~Includes(el.name, YelpWord)
         /\ ~exists
      THEN <<BusinessResult(el.name, <<>>,
                            IF phone # <<>> THEN formatPhoneDisplay(phone) ELSE <<>>,
                            phone # <<>>, YelpHost \o el.link, <<>>, SourceName("Yelp"))>>
      ELSE <<>>

DirectEmailResult(el) ==
  LET emails == extractAllEmails(SnippetDoc(el), FALSE)
      phones == extractAllPhones(SnippetDoc(el), FALSE)
  IN  IF el.name # <<>> /\ emails # <<>>
      THEN <<BusinessResult(Slice(el.name, 0, 100), First(emails), First(phones), phones # <<>>,
                            IF el.link = <<>> \/ StartsWith(el.link, Http) THEN el.link ELSE Https \o el.link,
                            <<>>, SourceName("DirectSearch"))>>
      ELSE <<>>

\* The `.each` loop over the matched elements of one response
RECURSIVE ParseResponse(_, _, _)
ParseResponse(a, results, elements) ==
  IF elements = <<>> THEN results
  ELSE LET el == Head(elements)
           new == CASE a = "DuckDuckGo" -> DuckDuckGoResult(el)
                    [] a = "PaginasAmarillas" -> PaginasAmarillasResult(el)
                    [] a = "Directorios" -> DirectoriesResult(el)
                    [] a = "Yelp" -> YelpResult(results, el)
                    [] a = "DirectSearch" -> DirectEmailResult(el)
       IN  ParseResponse(a, results \o new, Tail(elements))

\* ------------------------------------------------------------------------
\* The outside world, bounded.  Literals used by the pools.
\* ------------------------------------------------------------------------

T_ElSol == <<"E","l"," ","S","o","l">>

T_ElSolUpper == <<"E","L"," ","S","O","L",".">>

T_BarUno == <<"B","a","r"," ","U","n","o">>

M_Ana == <<"a","n","a","@","s","o","l","v","e","t",".","e","s">>

M_Info == <<"i","n","f","o","@","s","o","l","v","e","t",".","e","s">>

P_Mobile == <<"6","1","2","3","4","5","6","7","8">>

P_Short == <<"1","2","3">>

U_Solvet == <<"s","o","l","v","e","t",".","e","s">>

U_BizSol == <<"/","b","i","z","/","e","l","-","s","o","l">>

T_Abc == <<"A","b","c">>

T_AbDotC == <<"A","b",".","c">>

T_ABCSpaced == <<"A"," ","b"," ","c",".">>

T_ElSolNorte == <<"E","l"," ","S","o","l"," ","N","o","r","t","e">>

T_ElSolNorteBar == <<"E","l"," ","S","o","l"," ","N","o","r","t","e"," ","B","a","r">>

U_BizNorte == <<"/","b","i","z","/","e","l","-","s","o","l","-","n","o","r","t","e">>

Element(name, emails, phones, link) ==
  [name |-> name, emails |-> emails, phones |-> phones, link |-> link, address |-> <<>>]

\* The elements an endpoint may serve in the whole-pipeline and fetch scopes
StageElements(a) ==
  CASE a = "PaginasAmarillas" ->
         { Element(T_ElSol, <<M_Ana>>, <<P_Short>>, <<>>),
           Element(T_BarUno, <<>>, <<>>, Https \o U_Solvet) }
    [] a = "DuckDuckGo" ->
         { Element(T_ElSolUpper, <<M_Info>>, <<P_Mobile>>, <<>>),
           Element(T_BarUno, <<>>, <<>>, <<>>) }
    [] a = "Directorios" -> {}
    [] a = "Yelp" -> {}
    [] a = "DirectSearch" ->
         { Element(T_ElSol, <<M_Info>>, <<>>, U_Solvet) }

\* Names that collide on the three-word key, across all five sources
DedupElements(a) ==
  CASE a = "PaginasAmarillas" ->
         { Element(T_ElSol, <<>>, <<P_Mobile>>, <<>>),
           Element(T_Abc, <<>>, <<>>, Https \o U_Solvet) }
    [] a = "DuckDuckGo" ->
         { Element(T_ElSolUpper, <<M_Info>>, <<P_Mobile>>, <<>>),
           Element(T_AbDotC, <<>>, <<>>, <<>>),
           Element(T_ABCSpaced, <<>>, <<>>, <<>>) }
    [] a = "Directorios" ->
         { Element(T_ElSolNorteBar, <<>>, <<>>, U_Solvet) }
    [] a = "Yelp" ->
         { Element(T_ElSol, <<>>, <<>>, U_BizSol),
           Element(T_ElSolNorte, <<>>, <<P_Mobile>>, U_BizNorte) }
    [] a = "DirectSearch" ->
         { Element(T_ElSol, <<M_Info>>, <<>>, U_Solvet) }

\* Candidates with and without an email of their own, all but one with a website
EnrichElements(a) ==
  CASE a = "PaginasAmarillas" ->
         { Element(T_ElSol, <<M_Ana>>, <<>>, Https \o U_Solvet),
           Element(T_ElSol, <<M_Info>>, <<P_Mobile>>, Https \o U_Solvet),
           Element(T_BarUno, <<>>, <<>>, Https \o U_Solvet),
           Element(T_BarUno, <<M_Ana>>, <<P_Mobile>>, <<>>) }
    [] a = "DuckDuckGo" ->
         { Element(T_ElSolUpper, <<M_Info>>, <<P_Mobile>>, U_Solvet) }
    [] OTHER -> {}

\* The elements an endpoint may serve, per specification scope
Elements(sc, a) ==
  CASE sc = "dedup" -> DedupElements(a)
    [] sc = "enrich" -> EnrichElements(a)
    [] sc = "crawl" ->
         IF a = "PaginasAmarillas" THEN { Element(T_BarUno, <<>>, <<>>, Https \o U_Solvet) } ELSE {}
    [] sc = "fetch" /\ a = "Yelp" -> { Element(T_ElSol, <<>>, <<P_Mobile>>, U_BizSol) }
    [] sc = "live" ->
         IF a = "PaginasAmarillas" THEN { Element(T_BarUno, <<>>, <<>>, Https \o U_Solvet) } ELSE {}
    [] OTHER -> StageElements(a)

\* The matched elements of one response body: none or one element
Responses(sc, a) == {<<>>} \cup {<<el>> : el \in Elements(sc, a)}

\* HTTP statuses an endpoint may answer with; response.ok is 200..299
Statuses == {200, 404, 503}

IsOk(status) == status >= 200 /\ status <= 299

\* An adapter accumulates at most this many candidates in a run
MaxPerAdapter == 1

\* maxResults values a request may carry
MaxResultsInput == 2

\* ------------------------------------------------------------------------
\* State
\* ------------------------------------------------------------------------

VARIABLES
  call,           \* a helper called on its own: function, argument, result
  scope,          \* which bounded world the run lives in
  silent,         \* the adapters whose endpoint never answers
  request,        \* the request body: whether it parses, query and location truthy
  options,        \* maxResults and verifyContacts of the body, once the handler reads them
  pc,             \* where the POST handler is
  response,       \* what POST answered; status 0 while it has not
  adapter,        \* per SourceAdapter: query index, call phase, results, elapsed ms
  allResults,     \* the combined raw candidates
  uniqueResults,  \* the deduplicated candidates
  finalResults,   \* the candidates being enriched, ranked and filtered
  task,           \* per candidate of finalResults: its enrichment task
  home            \* the state of the results page (part_001)

\* No helper is called on its own while the handler runs
NoCall == [fn |-> "none", arg |-> <<>>, returned |-> FALSE, result |-> FALSE]

\* The results page is not open
NotMounted ==
  [mounted |-> FALSE, loading |-> FALSE, results |-> <<>>, hasResults |-> FALSE,
   contacted |-> {}, contactedData |-> <<>>, selectedRows |-> {}, selectAll |-> FALSE]

vars == <<call, scope, silent, request, options, pc, response, adapter, allResults, uniqueResults, finalResults, task, home>>

\* fetchWithTimeout(url, 15000) in every adapter
PrimaryTimeout == 15000

\* The number of entries of the adapter's `searches` / `urls` array
NumQueries(a) ==
  CASE a = "DuckDuckGo" -> 5
    [] a = "PaginasAmarillas" -> 2
    [] a = "Directorios" -> 4
    [] a = "Yelp" -> 1
    [] a = "DirectSearch" -> 3

NoResponse == [status |-> 0, results |-> <<>>]

IdleAdapter == [q |-> 0, phase |-> "idle", results |-> <<>>, elapsed |-> 0]

Requests ==
  {[parses |-> FALSE, query |-> FALSE, location |-> FALSE]}
  \cup [parses : {TRUE}, query : BOOLEAN, location : BOOLEAN]

\* maxResults (30 when the body has none) and verifyContacts (true when the
\* body has none).  Both are destructured with query and location and first
\* read after deduplication: the model draws them where they are read.
Options == [read : {TRUE}, maxResults : (0..MaxResultsInput) \cup {30}, verifyContacts : BOOLEAN]

\* The bodies a scope's requests carry
OptionsOf(sc) ==
  CASE sc = "dedup" -> {o \in Options : o.maxResults = MaxResultsInput /\ ~o.verifyContacts}
    [] sc \in {"enrich", "crawl"} -> {o \in Options : o.maxResults = 30 /\ o.verifyContacts}
    [] OTHER -> Options

NotRead == [read |-> FALSE, maxResults |-> 30, verifyContacts |-> TRUE]

InitCommon ==
  /\ pc = "idle"
  /\ options = NotRead
  /\ response = NoResponse
  /\ adapter = [a \in Adapters |-> IdleAdapter]
  /\ allResults = <<>>
  /\ uniqueResults = <<>>
  /\ finalResults = <<>>
  /\ task = <<>>

Init ==
  /\ scope = "pipeline"
  /\ home = NotMounted
  /\ call = NoCall
  /\ silent = {}
  /\ request \in Requests
  /\ InitCommon

InitFetch ==
  /\ scope = "fetch"
  /\ home = NotMounted
  /\ call = NoCall
  /\ silent \in {{}} \cup {{a} : a \in Adapters}
  /\ request \in Requests
  /\ InitCommon

\* ------------------------------------------------------------------------
\* POST, first part: body, validation, fan-out
\* ------------------------------------------------------------------------

\* A handler without the 400 guard: a parsed body starts the adapters
Validate_Unguarded ==
  /\ pc = "idle"
  /\ IF ~request.parses
     THEN /\ pc' = "done"
          /\ response' = [NoResponse EXCEPT !.status = 500]
          /\ UNCHANGED adapter
     ELSE /\ pc' = "fetching"
          /\ adapter' = [a \in Adapters |-> [IdleAdapter EXCEPT !.q = 1, !.phase = "headers"]]
          /\ UNCHANGED response
  /\ UNCHANGED <<home, call, scope, silent, request, options, allResults, uniqueResults, finalResults, task>>

\* request.json() and the destructuring: a body that does not parse throws
\* into the handler's catch; a falsy query or location answers 400; else
\* the five adapters are called and each runs up to its first fetch.
Validate ==
  /\ pc = "idle"
  /\ IF ~request.parses
     THEN /\ pc' = "done"
          /\ response' = [NoResponse EXCEPT !.status = 500]
          /\ UNCHANGED adapter
     ELSE IF ~request.query \/ ~request.location
     THEN /\ pc' = "done"
          /\ response' = [NoResponse EXCEPT !.status = 400]
          /\ UNCHANGED adapter
     ELSE /\ pc' = "fetching"
          /\ adapter' = [a \in Adapters |-> [IdleAdapter EXCEPT !.q = 1, !.phase = "headers"]]
          /\ UNCHANGED response
  /\ UNCHANGED <<home, call, scope, silent, request, options, allResults, uniqueResults, finalResults, task>>

\* The adapter's loop moves to its next query, or returns its results
NextQuery(a, st) ==
  IF st.q < NumQueries(a)
  THEN [st EXCEPT !.q = st.q + 1, !.phase = "headers"]
  ELSE [st EXCEPT !.phase = "done"]

AdapterStep(a, st) ==
  /\ adapter' = [adapter EXCEPT ![a] = st]
  /\ UNCHANGED <<home, call, scope, silent, request, options, pc, response, allResults, uniqueResults, finalResults, task>>

\* fetch resolves: the timer is cleared; a non-OK status skips the query
AdapterHeaders(a) ==
  /\ pc = "fetching"
  /\ adapter[a].phase = "headers"
  /\ a \notin silent
  /\ \E status \in Statuses :
       AdapterStep(a, IF IsOk(status) THEN [adapter[a] EXCEPT !.phase = "body"]
                      ELSE NextQuery(a, adapter[a]))

\* fetch rejects (network error): fetchWithTimeout throws, the adapter's
\* catch swallows it
AdapterFetchFails(a) ==
  /\ pc = "fetching"
  /\ adapter[a].phase = "headers"
  /\ a \notin silent
  /\ AdapterStep(a, NextQuery(a, adapter[a]))

\* the timer fires before any answer: abort, same throw, same catch
AdapterTimeout(a) ==
  /\ pc = "fetching"
  /\ adapter[a].phase = "headers"
  /\ a \in silent
  /\ AdapterStep(a, NextQuery(a, [adapter[a] EXCEPT !.elapsed = @ + PrimaryTimeout]))

\* response.text() resolves and the elements are parsed into results;
\* Paginas Amarillas stops at the first url that gave results
AdapterBody(a) ==
  /\ pc = "fetching"
  /\ adapter[a].phase = "body"
  /\ \E elements \in Responses(scope, a) :
       LET results == ParseResponse(a, adapter[a].results, elements)
           st == [adapter[a] EXCEPT !.results = results]
       IN  /\ Len(results) <= MaxPerAdapter
           /\ AdapterStep(a, IF a = "PaginasAmarillas" /\ results # <<>>
                             THEN [st EXCEPT !.phase = "done"]
                             ELSE NextQuery(a, st))

\* An adapter whose catch returns an empty list instead of what it has
AdapterBodyFails_Drops(a) ==
  /\ pc = "fetching"
  /\ adapter[a].phase = "body"
  /\ AdapterStep(a, [adapter[a] EXCEPT !.phase = "done", !.results = <<>>])

\* response.text() rejects or the parse throws: swallowed by the catch
AdapterBodyFails(a) ==
  /\ pc = "fetching"
  /\ adapter[a].phase = "body"
  /\ AdapterStep(a, NextQuery(a, adapter[a]))

\* [...directEmailResults, ...paginasAmarillasResults, ...duckDuckGoResults,
\*  ...directoryResults, ...yelpResults]
Combined(ad) ==
  ad["DirectSearch"].results \o ad["PaginasAmarillas"].results \o ad["DuckDuckGo"].results
  \o ad["Directorios"].results \o ad["Yelp"].results

\* Promise.all of the five adapters resolves; the lists are combined with
\* the direct-email results first
Combine ==
  /\ pc = "fetching"
  /\ \A a \in Adapters : adapter[a].phase = "done"
  /\ pc' = "deduplicating"
  /\ allResults' = Combined(adapter)
  /\ UNCHANGED <<home, call, scope, silent, request, options, response, adapter, uniqueResults, finalResults, task>>

NextFetch ==
  \/ Validate
  \/ \E a \in Adapters : AdapterHeaders(a)
  \/ \E a \in Adapters : AdapterFetchFails(a)
  \/ \E a \in Adapters : AdapterTimeout(a)
  \/ \E a \in Adapters : AdapterBody(a)
  \/ \E a \in Adapters : AdapterBodyFails(a)
  \/ Combine

SpecFetch == InitFetch /\ [][NextFetch]_vars

\* ------------------------------------------------------------------------
\* Deduplicator (POST, route.ts)
\* ------------------------------------------------------------------------

\* name.toLowerCase().replace(/[^a-z...0-9\s]/g, '').replace(/\s+/g, ' ').trim()
NormalizedName(name) ==
  LET Strip(s) == KeepChars(s, Letters \cup Digits \cup Whitespace)
  IN  Chain(Trim, Chain(CollapseWhitespace, Chain(Strip, Chain(ToLower, name))))

\* normalizedName.split(' ').slice(0, 3).join('')
NameKey(name) ==
  LET Words(s) == Split(s, " ")
      FirstThree(ws) == Slice(ws, 0, 3)
  IN  Chain(Join, Chain(FirstThree, Chain(Words, NormalizedName(name))))

\* A loop that forgets the keys it has seen
KeepsResult_Unseen(seenNames, result) == Len(NormalizedName(result.name)) > 3

\* A test on the length of the key instead of the normalized name
KeepsResult_KeyLength(seenNames, result) ==
  NameKey(result.name) \notin seenNames /\ Len(NameKey(result.name)) > 3

\* The loop body's test: the key is new and the normalized name is longer
\* than 3 characters
KeepsResult(seenNames, result) ==
  NameKey(result.name) \notin seenNames /\ Len(NormalizedName(result.name)) > 3

\* A loop that completes the survivor's phone from the duplicates it drops
RECURSIVE DedupLoop_Merges(_, _, _)
DedupLoop_Merges(results, seenNames, unique) ==
  IF results = <<>> THEN unique
  ELSE IF NameKey(Head(results).name) \notin seenNames
          /\ Len(NormalizedName(Head(results).name)) > 3
       THEN DedupLoop_Merges(Tail(results), seenNames \cup {NameKey(Head(results).name)},
                             Append(unique, Head(results)))
       ELSE DedupLoop_Merges(Tail(results), seenNames,
              [u \in 1..Len(unique) |->
                 IF NameKey(unique[u].name) = NameKey(Head(results).name) /\ unique[u].phone = <<>>
                 THEN [unique[u] EXCEPT !.phone = Head(results).phone]
                 ELSE unique[u]])

RECURSIVE DedupLoop(_, _, _)
DedupLoop(results, seenNames, unique) ==
  IF results = <<>> THEN unique
  ELSE IF KeepsResult(seenNames, Head(results))
       THEN DedupLoop(Tail(results), seenNames \cup {NameKey(Head(results).name)},
                      Append(unique, Head(results)))
       ELSE DedupLoop(Tail(results), seenNames, unique)

Deduplicated(results) == DedupLoop(results, {}, <<>>)

Deduplicate ==
  /\ pc = "deduplicating"
  /\ pc' = "limiting"
  /\ uniqueResults' = Deduplicated(allResults)
  /\ UNCHANGED <<home, call, scope, silent, request, options, response, adapter, allResults, finalResults, task>>

\* ------------------------------------------------------------------------
\* WebsiteEnricher and Verifier (scrapeWebsiteDeep and the map callback of
\* POST, route.ts).  The secondary pages are interchangeable for the model:
\* what a page holds is drawn when its body arrives, so a task keeps the
\* number of pages awaiting headers and the number awaiting their body.
\* ------------------------------------------------------------------------

\* Array.from(internalLinks).slice(0, 8); the 19 common paths alone exceed it
MaxPages == 8

\* What $('a[href]') matches in a page: the href attribute and the anchor's text
Link(href, text) == [href |-> href, text |-> text]

\* s.indexOf(p) from position i on, counted from 1; 0 when p does not occur
RECURSIVE IndexFrom(_, _, _)
IndexFrom(s, p, i) ==
  IF i + Len(p) - 1 > Len(s) THEN 0
  ELSE IF SubSeq(s, i, i + Len(p) - 1) = p THEN i ELSE IndexFrom(s, p, i + 1)

\* The first position from i on that holds one of `stops`; Len(s) + 1 when none does
RECURSIVE UntilChar(_, _, _)
UntilChar(s, i, stops) ==
  IF i <= Len(s) /\ s[i] \notin stops THEN UntilChar(s, i + 1, stops) ELSE i

\* if (!url.startsWith('http')) url = `https://${url}`
WithScheme(url) == IF StartsWith(url, Http) THEN url ELSE Https \o url

\* new URL(url).origin of an http(s) URL: the scheme and the host, lower-cased.
\* The authority ends at the first "/", "?" or "#"; what precedes an "@" in it
\* is the userinfo and no part of the origin.  No URL of the model has a port.
Origin(url) ==
  LET sep == IndexFrom(url, <<":","/","/">>, 1)
      authority == SubSeq(url, sep + 3, UntilChar(url, sep + 3, {"/", "?", "#"}) - 1)
      parts == Split(authority, "@")
  IN  ToLower(SubSeq(url, 1, sep + 2) \o parts[Len(parts)])

\* new URL(href, baseUrl).toString() for an href that does not start with
\* "http": "//host/path" takes the base's scheme only, "/path" and "path" are
\* resolved against the base's origin (baseUrl is an origin: its path is "/")
ResolveHref(href, baseUrl) ==
  IF StartsWith(href, <<"/","/">>)
  THEN SubSeq(baseUrl, 1, IndexFrom(baseUrl, <<":">>, 1)) \o href
  ELSE IF StartsWith(href, <<"/">>) THEN baseUrl \o href ELSE baseUrl \o <<"/">> \o href

\* The schemes and anchors the link callback returns on at once
SkippedPrefixes ==
  { <<"j","a","v","a","s","c","r","i","p","t",":">>,
    <<"#">>,
    <<"m","a","i","l","t","o",":">>,
    <<"t","e","l",":">> }

keywords ==
  << <<"c","o","n","t","a","c","t">>,
     <<"c","o","n","t","a","c","t","o">>,
     <<"a","b","o","u","t">>,
     <<"s","o","b","r","e">>,
     <<"n","o","s","o","t","r","o","s">>,
     <<"q","u","i","e","n","e","s">>,
     <<"e","q","u","i","p","o">>,
     <<"t","e","a","m">>,
     <<"e","m","p","r","e","s","a">>,
     <<"c","o","m","p","a","n","y">>,
     <<"i","n","f","o">>,
     <<"l","e","g","a","l">>,
     <<"a","v","i","s","o">>,
     <<"p","r","i","v","a","c","i","d","a","d">>,
     <<"f","o","o","t","e","r">> >>

\* keywords.some(kw => href.toLowerCase().includes(kw) || text.includes(kw))
isRelevant(link) ==
  \E k \in 1..Len(keywords) :
    Includes(ToLower(link.href), keywords[k]) \/ Includes(ToLower(link.text), keywords[k])

\* The callback of $('a[href]').each: what one anchor adds to internalLinks
LinkTarget(link, baseUrl) ==
  IF (\E p \in SkippedPrefixes : StartsWith(link.href, p)) \/ ~isRelevant(link) THEN <<>>
  ELSE IF StartsWith(link.href, Http)
       THEN (IF StartsWith(link.href, baseUrl) THEN <<link.href>> ELSE <<>>)
       ELSE <<ResolveHref(link.href, baseUrl)>>

RECURSIVE LinkTargets(_, _)
LinkTargets(links, baseUrl) ==
  IF links = <<>> THEN <<>>
  ELSE LinkTarget(Head(links), baseUrl) \o LinkTargets(Tail(links), baseUrl)

commonPaths ==
  << <<"/","c","o","n","t","a","c","t","o">>,
     <<"/","c","o","n","t","a","c","t">>,
     <<"/","c","o","n","t","a","c","t","a","r">>,
     <<"/","c","o","n","t","a","c","t","a","n","o","s">>,
     <<"/","c","o","n","t","a","c","t","-","u","s">>,
     <<"/","s","o","b","r","e","-","n","o","s","o","t","r","o","s">>,
     <<"/","a","b","o","u","t">>,
     <<"/","a","b","o","u","t","-","u","s">>,
     <<"/","q","u","i","e","n","e","s","-","s","o","m","o","s">>,
     <<"/","e","m","p","r","e","s","a">>,
     <<"/","e","q","u","i","p","o">>,
     <<"/","t","e","a","m">>,
     <<"/","n","u","e","s","t","r","o","-","e","q","u","i","p","o">>,
     <<"/","l","e","g","a","l">>,
     <<"/","a","v","i","s","o","-","l","e","g","a","l">>,
     <<"/","p","r","i","v","a","c","i","d","a","d">>,
     <<"/","p","r","i","v","a","c","y">>,
     <<"/","i","n","f","o">>,
     <<"/","i","n","f","o","r","m","a","c","i","o","n">> >>

\* internalLinks once the common paths are added: a Set, in insertion order
internalLinks(links, baseUrl) ==
  Distinct(LinkTargets(links, baseUrl)
           \o [k \in 1..Len(commonPaths) |-> baseUrl \o commonPaths[k]])

\* A crawl that fetches every internal link it knows
pagesToScrape_All(url, links) == internalLinks(links, Origin(WithScheme(url)))

\* Array.from(internalLinks).slice(0, 8)
pagesToScrape(url, links) ==
  Slice(internalLinks(links, Origin(WithScheme(url))), 0, MaxPages)

NoScrape == [emails |-> <<>>, phones |-> <<>>, owner |-> <<>>, status |-> 0]

\* The callback's locals: `pages` is pagesToScrape while its fetches are under
\* way, `probe` names the fetch that gave domainCheck
\* ("none" before any, "failed" once both have thrown), `domainCheck` is its
\* response status
IdleTask ==
  [phase |-> "done", pages |-> <<>>, nHeaders |-> 0, nBody |-> 0, scraped |-> NoScrape,
   probe |-> "none", domainCheck |-> 0]

\* result.email.split('@')[1]
EmailDomain(email) ==
  LET parts == Split(email, "@") IN IF Len(parts) >= 2 THEN parts[2] ELSE <<>>

\* A callback that probes whether or not the candidate holds an email
VerifyStart_Always(result, scraped) ==
  [IdleTask EXCEPT !.phase = "probe_https", !.scraped = scraped]

\* The callback after scrapeWebsiteDeep: probe the email's domain, or return.
\* `scraped` stays in the callback's scope until it returns.
VerifyStart(result, scraped) ==
  IF result.email # <<>> /\ EmailDomain(result.email) # <<>>
  THEN [IdleTask EXCEPT !.phase = "probe_https", !.scraped = scraped]
  ELSE [IdleTask EXCEPT !.scraped = scraped]

\* The callback up to its first await
TaskStart(result) ==
  IF result.website # <<>>
  THEN [IdleTask EXCEPT !.phase = "home_headers"]
  ELSE VerifyStart(result, NoScrape)

\* A merge that takes the first scraped email whether or not one is held
MergeScraped_Overwrites(result, scraped) ==
  LET r1 == IF scraped.emails # <<>> THEN [result EXCEPT !.email = scraped.emails[1]] ELSE result
      r2 == IF r1.phone = <<>> /\ scraped.phones # <<>>
            THEN [r1 EXCEPT !.phone = scraped.phones[1], !.phoneVerified = TRUE] ELSE r1
      r3 == IF scraped.owner # <<>> THEN [r2 EXCEPT !.owner = scraped.owner] ELSE r2
  IN  [r3 EXCEPT !.websiteStatus = scraped.status]

\* What the callback copies from the scrape into the candidate
MergeScraped(result, scraped) ==
  LET r1 == IF scraped.emails # <<>> /\ result.email = <<>>
            THEN [result EXCEPT !.email = scraped.emails[1]] ELSE result
      r2 == IF r1.phone = <<>> /\ scraped.phones # <<>>
            THEN [r1 EXCEPT !.phone = scraped.phones[1], !.phoneVerified = TRUE] ELSE r1
      r3 == IF scraped.owner # <<>> THEN [r2 EXCEPT !.owner = scraped.owner] ELSE r2
  IN  [r3 EXCEPT !.websiteStatus = scraped.status]

\* scrapeWebsiteDeep returns: merge, then go on to the email probe
FinishScrape(i, scraped) ==
  LET merged == MergeScraped(finalResults[i], scraped)
  IN  /\ finalResults' = [finalResults EXCEPT ![i] = merged]
      /\ task' = [task EXCEPT ![i] = VerifyStart(merged, scraped)]

TaskFrame == UNCHANGED <<home, call, scope, silent, request, options, pc, response, adapter, allResults, uniqueResults>>

\* uniqueResults.slice(0, maxResults); with verifyContacts every candidate's
\* callback starts, without it the handler goes straight to the sort
Limit ==
  /\ pc = "limiting"
  /\ \E o \in OptionsOf(scope) :
       LET limited == Slice(uniqueResults, 0, o.maxResults)
       IN  /\ options' = o
           /\ finalResults' = limited
           /\ IF o.verifyContacts
              THEN /\ pc' = "enriching"
                   /\ task' = [i \in 1..Len(limited) |-> TaskStart(limited[i])]
              ELSE /\ pc' = "ranking"
                   /\ task' = <<>>
  /\ allResults' = <<>>
  /\ uniqueResults' = <<>>
  /\ UNCHANGED <<home, call, scope, silent, request, response, adapter>>

\* What a homepage and a secondary page may hold, per scope
D_Info == [NoDoc EXCEPT !.mailto = <<M_Info>>]

D_Ana == [NoDoc EXCEPT !.mailto = <<M_Ana>>]

\* An image name that EMAIL_REGEX matches
M_Logo == <<"l","o","g","o","@","2","x",".","p","n","g">>

\* A homepage with an email among matches that are none: the image name in
\* its text, a three-digit tel: link
D_InfoAndJunk == [D_Info EXCEPT !.text = <<M_Logo>>, !.tel = <<P_Short>>]

D_Phone == [NoDoc EXCEPT !.tel = <<P_Mobile>>]

O_Juan == <<"J","u","a","n"," ","P","e","r","e","z">>

D_Owner == [NoDoc EXCEPT !.owners = <<O_Juan>>]

\* Homepages of https://solvet.es with anchors.  The first has the links of
\* a site of its own: an absolute one, a path, a relative one whose text
\* alone is relevant, and anchors the callback skips (irrelevant, mailto:,
\* another site).
D_SiteLinks ==
  [NoDoc EXCEPT !.links =
     << Link(Https \o U_Solvet \o <<"/","c","o","n","t","a","c","t","o">>, <<>>),
        Link(<<"/","e","q","u","i","p","o">>, <<>>),
        Link(<<"a","v","i","s","o",".","h","t","m","l">>, <<"A","v","i","s","o"," ","L","e","g","a","l">>),
        Link(<<"/","b","l","o","g">>, <<"B","l","o","g">>),
        Link(<<"m","a","i","l","t","o",":","i","n","f","o","@","s","o","l","v","e","t",".","e","s">>, <<"C","o","n","t","a","c","t","o">>),
        Link(<<"h","t","t","p","s",":","/","/","o","t","h","e","r",".","e","x","a","m","p","l","e","/","c","o","n","t","a","c","t">>, <<>>) >>]

\* href="//evil.example/contacto"
D_ProtocolRelative ==
  [NoDoc EXCEPT !.links = << Link(<<"/","/","e","v","i","l",".","e","x","a","m","p","l","e","/","c","o","n","t","a","c","t","o">>, <<>>) >>]

\* href="https://solvet.es.evil.example/contact"
D_OriginPrefix ==
  [NoDoc EXCEPT !.links = << Link(Https \o U_Solvet \o <<".","e","v","i","l",".","e","x","a","m","p","l","e","/","c","o","n","t","a","c","t">>, <<>>) >>]

\* The relevant links of the homepage with most of them
LinksOnPage == 9

\* href="/info/a", href="/info/aa", ...
D_ManyLinks ==
  [NoDoc EXCEPT !.links =
     [k \in 1..LinksOnPage |-> Link(<<"/","i","n","f","o","/">> \o [j \in 1..k |-> "a"], <<>>)]]

HomeDocs(sc) ==
  CASE sc = "enrich" -> {NoDoc, D_Info, D_Ana, D_Phone}
    [] sc = "crawl" -> {NoDoc, D_SiteLinks, D_ProtocolRelative, D_OriginPrefix, D_ManyLinks}
    [] OTHER -> {NoDoc, D_InfoAndJunk}

PageDocs(sc) ==
  CASE sc = "enrich" -> {NoDoc, D_Info, D_Ana, D_Owner}
    [] sc = "crawl" -> {NoDoc, D_Info, D_Ana}
    [] OTHER -> {NoDoc, D_Ana}

Running(i, phase) == pc = "enriching" /\ i \in 1..Len(task) /\ task[i].phase = phase

\* A crawl that reads the homepage whatever its status
HomeHeaders_AnyStatus(i) ==
  /\ Running(i, "home_headers")
  /\ \E status \in Statuses :
       /\ task' = [task EXCEPT ![i].phase = "home_body", ![i].scraped.status = status]
       /\ UNCHANGED finalResults
  /\ TaskFrame

\* homepage: fetch resolves; the status is recorded; a non-OK one ends the scrape
HomeHeaders(i) ==
  /\ Running(i, "home_headers")
  /\ \E status \in Statuses :
       IF IsOk(status)
       THEN /\ task' = [task EXCEPT ![i].phase = "home_body", ![i].scraped.status = status]
            /\ UNCHANGED finalResults
       ELSE FinishScrape(i, [NoScrape EXCEPT !.status = status])
  /\ TaskFrame

\* A homepage failure that escapes to the handler's catch
HomeFails_Escapes(i) ==
  /\ Running(i, "home_headers")
  /\ pc' = "done"
  /\ response' = [NoResponse EXCEPT !.status = 500]
  /\ UNCHANGED <<home, call, scope, silent, request, options, adapter, allResults, uniqueResults, finalResults, task>>

\* homepage: fetch rejects or is aborted; the outer catch returns status 0
HomeFails(i) ==
  /\ Running(i, "home_headers")
  /\ FinishScrape(i, NoScrape)
  /\ TaskFrame

\* homepage: the body arrives, is extracted, and the secondary pages are fetched
HomeBody(i) ==
  /\ Running(i, "home_body")
  /\ \E doc \in HomeDocs(scope) :
       task' = [task EXCEPT ![i].phase = "pages",
                            ![i].pages = pagesToScrape(finalResults[i].website, doc.links),
                            ![i].nHeaders = Len(pagesToScrape(finalResults[i].website, doc.links)),
                            ![i].scraped.emails = extractAllEmails(doc, TRUE),
                            ![i].scraped.phones = extractAllPhones(doc, TRUE),
                            ![i].scraped.owner = extractOwner(doc)]
  /\ UNCHANGED finalResults
  /\ TaskFrame

\* homepage: response.text() rejects; the outer catch returns the status alone
HomeBodyFails(i) ==
  /\ Running(i, "home_body")
  /\ FinishScrape(i, task[i].scraped)
  /\ TaskFrame

\* A secondary page settled: the last one resolves Promise.all
PageSettled(i, t) ==
  IF t.nHeaders = 0 /\ t.nBody = 0
  THEN FinishScrape(i, t.scraped)
  ELSE task' = [task EXCEPT ![i] = t] /\ UNCHANGED finalResults

PageHeaders(i) ==
  /\ Running(i, "pages")
  /\ task[i].nHeaders > 0
  /\ \E status \in Statuses :
       PageSettled(i, IF IsOk(status)
                      THEN [task[i] EXCEPT !.nHeaders = @ - 1, !.nBody = @ + 1]
                      ELSE [task[i] EXCEPT !.nHeaders = @ - 1])
  /\ TaskFrame

PageFails(i) ==
  /\ Running(i, "pages")
  /\ task[i].nHeaders > 0
  /\ PageSettled(i, [task[i] EXCEPT !.nHeaders = @ - 1])
  /\ TaskFrame

\* What one secondary page adds to the sets and to owner
AddPage(scraped, doc) ==
  [scraped EXCEPT !.emails = Distinct(@ \o extractAllEmails(doc, TRUE)),
                  !.phones = Distinct(@ \o extractAllPhones(doc, TRUE)),
                  !.owner = IF @ = <<>> THEN extractOwner(doc) ELSE @]

PageBody(i) ==
  /\ Running(i, "pages")
  /\ task[i].nBody > 0
  /\ \E doc \in PageDocs(scope) :
       PageSettled(i, [task[i] EXCEPT !.nBody = @ - 1, !.scraped = AddPage(@, doc)])
  /\ TaskFrame

PageBodyFails(i) ==
  /\ Running(i, "pages")
  /\ task[i].nBody > 0
  /\ PageSettled(i, [task[i] EXCEPT !.nBody = @ - 1])
  /\ TaskFrame

\* A verdict that counts a client error as a dead domain
ProbeVerdict_Below400(status) == status < 400

\* result.emailVerified = domainCheck.status < 500
ProbeVerdict(status) == status < 500

\* The probe under way answers, whatever its status
ProbeHeaders(i) ==
  /\ pc = "enriching" /\ i \in 1..Len(task)
  /\ task[i].phase \in {"probe_https", "probe_http"}
  /\ \E status \in Statuses :
       /\ finalResults' = [finalResults EXCEPT ![i].emailVerified = ProbeVerdict(status)]
       /\ task' = [task EXCEPT ![i].phase = "done",
                               ![i].probe = IF task[i].phase = "probe_https" THEN "https" ELSE "http",
                               ![i].domainCheck = status]
  /\ TaskFrame

\* A verifier that drops an email whose domain cannot be reached at all
ProbeFails_ClearsEmail(i) ==
  /\ pc = "enriching" /\ i \in 1..Len(task)
  /\ \/ /\ task[i].phase = "probe_https"
        /\ task' = [task EXCEPT ![i].phase = "probe_http"]
        /\ UNCHANGED finalResults
     \/ /\ task[i].phase = "probe_http"
        /\ task' = [task EXCEPT ![i].phase = "done", ![i].probe = "failed"]
        /\ finalResults' = [finalResults EXCEPT ![i].email = <<>>]
  /\ TaskFrame

\* https fails: retry over http; http fails too: assume the email valid
ProbeFails(i) ==
  /\ pc = "enriching" /\ i \in 1..Len(task)
  /\ \/ /\ task[i].phase = "probe_https"
        /\ task' = [task EXCEPT ![i].phase = "probe_http"]
        /\ UNCHANGED finalResults
     \/ /\ task[i].phase = "probe_http"
        /\ task' = [task EXCEPT ![i].phase = "done", ![i].probe = "failed"]
        /\ finalResults' = [finalResults EXCEPT ![i].emailVerified = TRUE]
  /\ TaskFrame

\* A join that lets the handler go on while callbacks are still running
EnrichJoin_Early ==
  /\ pc = "enriching"
  /\ pc' = "ranking"
  /\ UNCHANGED <<home, call, scope, silent, request, options, response, adapter, allResults, uniqueResults, finalResults, task>>

\* Promise.all(enrichmentPromises) resolves
EnrichJoin ==
  /\ pc = "enriching"
  /\ \A i \in 1..Len(task) : task[i].phase = "done"
  /\ pc' = "ranking"
  /\ UNCHANGED <<home, call, scope, silent, request, options, response, adapter, allResults, uniqueResults, finalResults, task>>

\* ------------------------------------------------------------------------
\* Ranker, validity filter and answer (POST, route.ts)
\* ------------------------------------------------------------------------

\* A score that weighs the phone above the email
Score_PhoneFirst(r) ==
  (IF r.email # <<>> THEN 1 ELSE 0) + (IF r.phone # <<>> THEN 3 ELSE 0)
  + (IF r.owner # <<>> THEN 1 ELSE 0)

Score(r) ==
  (IF r.email # <<>> THEN 3 ELSE 0) + (IF r.phone # <<>> THEN 1 ELSE 0)
  + (IF r.owner # <<>> THEN 1 ELSE 0)

\* An insertion that puts a candidate before the ones of its own score
RECURSIVE InsertByScore_TiesFirst(_, _)
InsertByScore_TiesFirst(sorted, r) ==
  IF sorted = <<>> THEN <<r>>
  ELSE IF Score(Head(sorted)) > Score(r)
       THEN <<Head(sorted)>> \o InsertByScore_TiesFirst(Tail(sorted), r)
       ELSE <<r>> \o sorted

\* Array.prototype.sort with (a, b) => scoreB - scoreA: stable, descending
RECURSIVE InsertByScore(_, _)
InsertByScore(sorted, r) ==
  IF sorted = <<>> THEN <<r>>
  ELSE IF Score(Head(sorted)) >= Score(r)
       THEN <<Head(sorted)>> \o InsertByScore(Tail(sorted), r)
       ELSE <<r>> \o sorted

RECURSIVE SortByScore(_)
SortByScore(rs) ==
  IF rs = <<>> THEN <<>>
  ELSE InsertByScore(SortByScore(SubSeq(rs, 1, Len(rs) - 1)), rs[Len(rs)])

Rank ==
  /\ pc = "ranking"
  /\ pc' = "filtering"
  /\ finalResults' = SortByScore(finalResults)
  /\ UNCHANGED <<home, call, scope, silent, request, options, response, adapter, allResults, uniqueResults, task>>

\* A filter that lets every candidate through
IsValidResult_All(r) == TRUE

\* r => r.email || r.phone || r.website
IsValidResult(r) == r.email # <<>> \/ r.phone # <<>> \/ r.website # <<>>

Respond ==
  /\ pc = "filtering"
  /\ pc' = "done"
  /\ response' = [status |-> 200, results |-> SelectSeq(finalResults, IsValidResult)]
  /\ UNCHANGED <<home, call, scope, silent, request, options, adapter, allResults, uniqueResults, finalResults, task>>

\* ------------------------------------------------------------------------
\* The handler as a whole
\* ------------------------------------------------------------------------

Next ==
  \/ Validate
  \/ \E a \in Adapters : AdapterHeaders(a)
  \/ \E a \in Adapters : AdapterFetchFails(a)
  \/ \E a \in Adapters : AdapterBody(a)
  \/ \E a \in Adapters : AdapterBodyFails(a)
  \/ Combine
  \/ Deduplicate
  \/ Limit
  \/ \E i \in 1..Len(task) : HomeHeaders(i)
  \/ \E i \in 1..Len(task) : HomeFails(i)
  \/ \E i \in 1..Len(task) : HomeBody(i)
  \/ \E i \in 1..Len(task) : HomeBodyFails(i)
  \/ \E i \in 1..Len(task) : PageHeaders(i)
  \/ \E i \in 1..Len(task) : PageFails(i)
  \/ \E i \in 1..Len(task) : PageBody(i)
  \/ \E i \in 1..Len(task) : PageBodyFails(i)
  \/ \E i \in 1..Len(task) : ProbeHeaders(i)
  \/ \E i \in 1..Len(task) : ProbeFails(i)
  \/ EnrichJoin
  \/ Rank
  \/ Respond

Spec == Init /\ [][Next]_vars

\* ------------------------------------------------------------------------
\* Stage specifications: the handler entered at a stage, on the inputs the
\* earlier stages can hand it
\* ------------------------------------------------------------------------

GoodRequest == [parses |-> TRUE, query |-> TRUE, location |-> TRUE]

\* An adapter that has returned `results`
Returned(a, results) ==
  [q |-> NumQueries(a), phase |-> "done", results |-> results, elapsed |-> 0]

SeqsUpTo(S, n) == UNION {[1..k -> S] : k \in 0..n}

\* The elements one adapter matches in the deduplication scope
DedupPerAdapter == 2

Served(a) == SeqsUpTo(Elements("dedup", a), DedupPerAdapter)

\* Promise.all has resolved with what the five adapters returned
InitDedup ==
  /\ scope = "dedup"
  /\ home = NotMounted
  /\ call = NoCall
  /\ silent = {}
  /\ request = GoodRequest
  /\ options = NotRead
  /\ pc = "fetching"
  /\ response = NoResponse
  /\ \E ds \in Served("DirectSearch"), pa \in Served("PaginasAmarillas"),
        ddg \in Served("DuckDuckGo"), dir \in Served("Directorios"), yelp \in Served("Yelp") :
       adapter = [a \in Adapters |->
                    Returned(a, ParseResponse(a, <<>>,
                      CASE a = "DirectSearch" -> ds
                        [] a = "PaginasAmarillas" -> pa
                        [] a = "DuckDuckGo" -> ddg
                        [] a = "Directorios" -> dir
                        [] a = "Yelp" -> yelp))]
  /\ allResults = <<>>
  /\ uniqueResults = <<>>
  /\ finalResults = <<>>
  /\ task = <<>>

NextDedup == Combine \/ Deduplicate \/ Limit \/ Rank \/ Respond

SpecDedup == InitDedup /\ [][NextDedup]_vars

\* One candidate has come out of deduplication
InitEnrich ==
  /\ scope = "enrich"
  /\ home = NotMounted
  /\ call = NoCall
  /\ silent = {}
  /\ request = GoodRequest
  /\ options = NotRead
  /\ pc = "limiting"
  /\ response = NoResponse
  /\ \E src \in Adapters : \E el \in Elements("enrich", src) :
       /\ adapter = [a \in Adapters |->
                       Returned(a, IF a = src THEN ParseResponse(a, <<>>, <<el>>) ELSE <<>>)]
       /\ allResults = ParseResponse(src, <<>>, <<el>>)
       /\ uniqueResults = Deduplicated(ParseResponse(src, <<>>, <<el>>))
  /\ finalResults = <<>>
  /\ task = <<>>

NextEnrich ==
  \/ Limit
  \/ \E i \in 1..Len(task) : HomeHeaders(i)
  \/ \E i \in 1..Len(task) : HomeFails(i)
  \/ \E i \in 1..Len(task) : HomeBody(i)
  \/ \E i \in 1..Len(task) : HomeBodyFails(i)
  \/ \E i \in 1..Len(task) : PageHeaders(i)
  \/ \E i \in 1..Len(task) : PageFails(i)
  \/ \E i \in 1..Len(task) : PageBody(i)
  \/ \E i \in 1..Len(task) : PageBodyFails(i)
  \/ \E i \in 1..Len(task) : ProbeHeaders(i)
  \/ \E i \in 1..Len(task) : ProbeFails(i)
  \/ EnrichJoin
  \/ Rank
  \/ Respond

SpecEnrich == InitEnrich /\ [][NextEnrich]_vars

\* The crawl of one website: a candidate with a website and nothing else has
\* come out of deduplication, and its homepage has anchors
InitCrawl ==
  /\ scope = "crawl"
  /\ home = NotMounted
  /\ call = NoCall
  /\ silent = {}
  /\ request = GoodRequest
  /\ options = NotRead
  /\ pc = "limiting"
  /\ response = NoResponse
  /\ \E el \in Elements("crawl", "PaginasAmarillas") :
       /\ adapter = [a \in Adapters |->
                       Returned(a, IF a = "PaginasAmarillas" THEN ParseResponse(a, <<>>, <<el>>) ELSE <<>>)]
       /\ allResults = ParseResponse("PaginasAmarillas", <<>>, <<el>>)
       /\ uniqueResults = Deduplicated(ParseResponse("PaginasAmarillas", <<>>, <<el>>))
  /\ finalResults = <<>>
  /\ task = <<>>

SpecCrawl == InitCrawl /\ [][NextEnrich]_vars

\* Enriched and verified candidates reach the sort.  A case is the candidate
\* an adapter produced, what the crawl of its website returned, and the
\* verdict of the email probe.
T_CasaLuz == <<"C","a","s","a"," ","L","u","z">>

RankCase(a, el, scraped, verdict) ==
  [raw |-> ParseResponse(a, <<>>, <<el>>)[1], scraped |-> scraped, verdict |-> verdict]

RankCases ==
  { RankCase("PaginasAmarillas", Element(T_ElSol, <<M_Ana>>, <<P_Short>>, <<>>), NoScrape, TRUE),
    RankCase("DuckDuckGo", Element(T_BarUno, <<>>, <<P_Mobile>>, U_Solvet),
             [NoScrape EXCEPT !.emails = <<M_Info>>, !.status = 200], FALSE),
    RankCase("Yelp", Element(T_ElSolNorte, <<>>, <<P_Mobile>>, U_BizNorte),
             [NoScrape EXCEPT !.owner = O_Juan, !.status = 200], FALSE),
    RankCase("DuckDuckGo", Element(T_ABCSpaced, <<>>, <<>>, U_Solvet), NoScrape, FALSE),
    RankCase("PaginasAmarillas", Element(T_CasaLuz, <<M_Ana>>, <<P_Mobile>>, Https \o U_Solvet),
             [NoScrape EXCEPT !.owner = O_Juan, !.status = 200], TRUE),
    RankCase("PaginasAmarillas", Element(T_ElSolNorteBar, <<M_Info>>, <<P_Short>>, <<>>), NoScrape, FALSE) }

\* The candidate of a case as its callback leaves it
Enriched(c) ==
  LET merged == IF c.raw.website # <<>> THEN MergeScraped(c.raw, c.scraped) ELSE c.raw
  IN  IF merged.email # <<>> THEN [merged EXCEPT !.emailVerified = c.verdict] ELSE merged

\* The longest list handed to the sort
MaxRanked == 3

RankInputs ==
  {cs \in SeqsUpTo(RankCases, MaxRanked) :
     \A i, j \in 1..Len(cs) : i # j => NameKey(cs[i].raw.name) # NameKey(cs[j].raw.name)}

\* Promise.all(enrichmentPromises) has resolved
InitRank ==
  /\ scope = "rank"
  /\ home = NotMounted
  /\ call = NoCall
  /\ silent = {}
  /\ request = GoodRequest
  /\ options = [read |-> TRUE, maxResults |-> 30, verifyContacts |-> TRUE]
  /\ pc = "enriching"
  /\ response = NoResponse
  /\ \E cs \in RankInputs :
       /\ adapter = [a \in Adapters |->
                       Returned(a, SelectSeq([i \in 1..Len(cs) |-> cs[i].raw],
                                             LAMBDA r : r.source = SourceName(a)))]
       /\ finalResults = [i \in 1..Len(cs) |-> Enriched(cs[i])]
       /\ task = [i \in 1..Len(cs) |->
                   IF Enriched(cs[i]).email = <<>>
                   THEN [IdleTask EXCEPT !.scraped = cs[i].scraped]
                   ELSE [IdleTask EXCEPT !.scraped = cs[i].scraped,
                                         !.probe = "https",
                                         !.domainCheck = IF cs[i].verdict THEN 200 ELSE 503]]
  /\ allResults = <<>>
  /\ uniqueResults = <<>>

NextRank == EnrichJoin \/ Rank \/ Respond

SpecRank == InitRank /\ [][NextRank]_vars

\* ------------------------------------------------------------------------
\* Progress.  The handler's continuations run as soon as what they await
\* settles (the event loop), and a fetch under fetchWithTimeout settles
\* within its timer: headers, a rejection, or the abort.  The timer is
\* cleared once the headers are in, so nothing makes response.text()
\* settle: the body steps get no fairness.
\* ------------------------------------------------------------------------

InitLive ==
  /\ scope = "live"
  /\ home = NotMounted
  /\ call = NoCall
  /\ silent \in {{}, {"DuckDuckGo"}}
  /\ request \in Requests
  /\ InitCommon

NextLive ==
  \/ Next
  \/ \E a \in Adapters : AdapterTimeout(a)

\* A step the code's scheduling guarantees: a continuation of the handler,
\* or the settling of a fetch that is still under its timer
Settles ==
  \/ Validate \/ Combine \/ Deduplicate \/ Limit \/ EnrichJoin \/ Rank \/ Respond
  \/ \E a \in Adapters : AdapterHeaders(a) \/ AdapterFetchFails(a) \/ AdapterTimeout(a)
  \/ \E i \in 1..Len(task) : HomeHeaders(i) \/ HomeFails(i)
  \/ \E i \in 1..Len(task) : PageHeaders(i) \/ PageFails(i)
  \/ \E i \in 1..Len(task) : ProbeHeaders(i) \/ ProbeFails(i)

\* Every step makes progress towards the answer and none can repeat, so
\* fairness of the guaranteed steps taken together is fairness of each
Fairness == WF_vars(Settles)

SpecLive == InitLive /\ [][NextLive]_vars /\ Fairness

\* ------------------------------------------------------------------------
\* Properties
\* ------------------------------------------------------------------------

\* ------------------------------------------------------------------------
\* Version 4.3.0 of the route (src/unnamed/part_002): the same API with
\* AI-assisted adapters and its own helpers.  Where a helper has the name of
\* its route.ts counterpart, the definition carries the suffix V4.
\* ------------------------------------------------------------------------

\* const IGNORE_EMAIL_DOMAINS of part_002
IGNORE_EMAIL_DOMAINS_V4 ==
  { <<"e","x","a","m","p","l","e",".","c","o","m">>, <<"t","e","s","t",".","c","o","m">>,
    <<"l","o","c","a","l","h","o","s","t">>, <<"s","e","n","t","r","y",".","i","o">>,
    <<"w","i","x","p","r","e","s","s",".","c","o","m">>, <<"p","l","a","c","e","h","o","l","d","e","r",".","c","o","m">>,
    <<"y","o","u","r","d","o","m","a","i","n",".","c","o","m">>, <<"d","o","m","a","i","n",".","c","o","m">>,
    <<"e","m","a","i","l",".","c","o","m">>, <<"w","3",".","o","r","g">>, <<"s","c","h","e","m","a",".","o","r","g">>,
    <<"m","a","i","l","i","n","a","t","o","r",".","c","o","m">>, <<"y","e","l","p",".","c","o","m">>,
    <<"y","e","l","p",".","e","s">>, <<"f","a","c","e","b","o","o","k",".","c","o","m">>,
    <<"t","w","i","t","t","e","r",".","c","o","m">>, <<"i","n","s","t","a","g","r","a","m",".","c","o","m">>,
    <<"l","i","n","k","e","d","i","n",".","c","o","m">>, <<"g","o","o","g","l","e",".","c","o","m">>,
    <<"g","o","o","g","l","e","a","p","i","s",".","c","o","m">>, <<"g","s","t","a","t","i","c",".","c","o","m">>,
    <<"a","p","p","l","e",".","c","o","m">>, <<"m","i","c","r","o","s","o","f","t",".","c","o","m">>,
    <<"a","m","a","z","o","n",".","c","o","m">>, <<"c","l","o","u","d","f","l","a","r","e",".","c","o","m">>,
    <<"s","e","n","t","r","y","-","n","e","x","t",".","w","i","x","p","r","e","s","s",".","c","o","m">>,
    <<"e","l","p","a","i","s",".","e","s">>, <<"e","l","m","u","n","d","o",".","e","s">>,
    <<"a","b","c",".","e","s">>, <<"l","a","v","a","n","g","u","a","r","d","i","a",".","c","o","m">> }

\* const VALID_TLDS of part_002
VALID_TLDS_V4 ==
  { <<"c","o","m">>, <<"e","s">>, <<"o","r","g">>, <<"n","e","t">>, <<"i","n","f","o">>,
    <<"e","u">>, <<"c","a","t">>, <<"g","a","l">>, <<"e","u","s">>, <<"c","o">>, <<"i","o">>,
    <<"m","e">>, <<"b","i","z">> }

INVALID_EMAIL_PATTERNS ==
  { <<"w","i","n","d","o","w">>, <<"d","o","c","u","m","e","n","t">>, <<"l","o","c","a","t","i","o","n">>,
    <<"f","u","n","c","t","i","o","n">>, <<"r","e","t","u","r","n">>, <<"c","o","n","s","t">>,
    <<"v","a","r">>, <<"l","e","t">>, <<"t","h","i","s">>, <<"c","h","i","l","d","r","e","n">>,
    <<"p","r","o","t","o","t","y","p","e">>, <<"h","a","n","d","l","e","r">>, <<"c","a","l","l","b","a","c","k">>,
    <<"e","l","e","m","e","n","t">>, <<"n","o","d","e">>, <<"a","r","r","a","y">>,
    <<"o","b","j","e","c","t">>, <<"s","t","r","i","n","g">>, <<"n","u","l","l">>,
    <<"u","n","d","e","f","i","n","e","d">>, <<"t","r","u","e">>, <<"f","a","l","s","e">>,
    <<"m","o","d","u","l","e">>, <<"e","x","p","o","r","t">>, <<"i","m","p","o","r","t">>,
    <<"r","e","q","u","i","r","e">>, <<"a","s","y","n","c">>, <<"a","w","a","i","t">>,
    <<"p","r","o","m","i","s","e">>, <<"f","e","t","c","h">>, <<"j","q","u","e","r","y">>,
    <<"r","e","a","c","t">>, <<"a","n","g","u","l","a","r">>, <<"v","u","e">>, <<"s","c","r","i","p","t">>,
    <<"s","t","y","l","e">>, <<"s","u","s","c","r","i","p","c","i","o","n">>, <<"n","e","w","s","l","e","t","t","e","r">>,
    <<"n","o","r","e","p","l","y">>, <<"n","o","-","r","e","p","l","y">>, <<"d","o","n","o","t","r","e","p","l","y">>,
    <<"m","a","i","l","e","r","-","d","a","e","m","o","n">>, <<"p","o","s","t","m","a","s","t","e","r">>,
    <<"w","e","b","m","a","s","t","e","r">> }

\* /\.(png|jpg|gif|svg|css|js|woff|ico|pdf|doc)$/i
FileExtensionsV4 ==
  { <<"p","n","g">>, <<"j","p","g">>, <<"g","i","f">>, <<"s","v","g">>, <<"c","s","s">>,
    <<"j","s">>, <<"w","o","f","f">>, <<"i","c","o">>, <<"p","d","f">>, <<"d","o","c">> }

\* The ASCII characters from code 32 (space) to code 95 (underscore)
Ascii ==
  << " ", "!", "\"", "#", "$", "%", "&", "'", "(", ")", "*", "+", ",", "-", ".", "/",
     "0", "1", "2", "3", "4", "5", "6", "7", "8", "9", ":", ";", "<", "=", ">", "?",
     "@", "A", "B", "C", "D", "E", "F", "G", "H", "I", "J", "K", "L", "M", "N", "O",
     "P", "Q", "R", "S", "T", "U", "V", "W", "X", "Y", "Z", "[", "\\", "]", "^", "_" >>

HexDigits == <<"0","1","2","3","4","5","6","7","8","9","a","b","c","d","e","f">>

IsHex(c) == \E i \in 1..16 : HexDigits[i] = LowerChar(c)

HexValue(c) == (CHOOSE i \in 1..16 : HexDigits[i] = LowerChar(c)) - 1

\* The code of the escape %XY that starts at s[i]
EscapeCode(s, i) == 16 * HexValue(s[i + 1]) + HexValue(s[i + 2])

\* Whether decodeURIComponent(s) returns rather than throws: every % starts
\* an escape of two hex digits.  The bounded world holds the escapes of
\* the characters of Ascii only.
Decodable(s) ==
  \A i \in 1..Len(s) :
    s[i] = "%" => /\ i + 2 <= Len(s)
                  /\ IsHex(s[i + 1]) /\ IsHex(s[i + 2])
                  /\ EscapeCode(s, i) \in 32..95

RECURSIVE PercentDecode(_)
PercentDecode(s) ==
  IF s = <<>> THEN <<>>
  ELSE IF Head(s) = "%"
       THEN <<Ascii[EscapeCode(s, 1) - 31]>> \o PercentDecode(SubSeq(s, 4, Len(s)))
       ELSE <<Head(s)>> \o PercentDecode(Tail(s))

\* try { cleaned = decodeURIComponent(cleaned) } catch { }
DecodeOrKeep(s) == IF Decodable(s) THEN PercentDecode(s) ELSE s

\* s.replace(/^[...]+/, ''): drop the leading characters of a class
RECURSIVE DropLeading(_, _)
DropLeading(s, class) ==
  IF s # <<>> /\ Head(s) \in class THEN DropLeading(Tail(s), class) ELSE s

\* s.replace(/^[^...]+/, ''): drop the leading characters outside a class
RECURSIVE DropLeadingNot(_, _)
DropLeadingNot(s, class) ==
  IF s # <<>> /\ Head(s) \notin class THEN DropLeadingNot(Tail(s), class) ELSE s

Contacto == <<"c","o","n","t","a","c","t","o">>

\* s.replace(/^contacto\+?/, '')
DropContacto(s) ==
  IF StartsWith(s, Contacto \o <<"+">>) THEN SubSeq(s, Len(Contacto) + 2, Len(s))
  ELSE IF StartsWith(s, Contacto) THEN SubSeq(s, Len(Contacto) + 1, Len(s))
  ELSE s

\* s.replace(/\+34\d+/g, '')
RECURSIVE DropConcatenatedPhones(_)
DropConcatenatedPhones(s) ==
  IF s = <<>> THEN <<>>
  ELSE IF StartsWith(s, <<"+","3","4">>) /\ Len(s) >= 4 /\ s[4] \in Digits
       THEN DropConcatenatedPhones(DropLeading(SubSeq(s, 4, Len(s)), Digits))
       ELSE <<Head(s)>> \o DropConcatenatedPhones(Tail(s))

AsciiLetters == Letters \cup {UpperChars[i] : i \in 1..26}

\* [a-zA-Z0-9._%+-]
EmailLocalChars == AsciiLetters \cup Digits \cup {".", "_", "%", "+", "-"}

\* [a-zA-Z0-9.-]
EmailDomainChars == AsciiLetters \cup Digits \cup {".", "-"}

\* The first index past the run of characters of a class that starts at s[i]
RECURSIVE RunEnd(_, _, _)
RunEnd(s, i, class) ==
  IF i <= Len(s) /\ s[i] \in class THEN RunEnd(s, i + 1, class) ELSE i

Least(S) == CHOOSE a \in S : \A b \in S : a <= b

Greatest(S) == CHOOSE a \in S : \A b \in S : a >= b

\* The dots of the domain run after the @ at s[at] that two letters follow
DomainDots(s, at) ==
  {p \in (at + 2)..(Len(s) - 2) :
     /\ s[p] = "."
     /\ p < RunEnd(s, at + 1, EmailDomainChars)
     /\ s[p + 1] \in AsciiLetters /\ s[p + 2] \in AsciiLetters}

\* Whether [a-zA-Z0-9._%+-]+@[a-zA-Z0-9.-]+\.[a-zA-Z]{2,6} matches from s[i]
MatchesFrom(s, i) ==
  /\ s[i] \in EmailLocalChars
  /\ RunEnd(s, i, EmailLocalChars) <= Len(s)
  /\ s[RunEnd(s, i, EmailLocalChars)] = "@"
  /\ DomainDots(s, RunEnd(s, i, EmailLocalChars)) # {}

\* The match from s[i] whose top-level domain starts after the dot s[p]:
\* up to 6 letters
MatchUpTo(s, i, p, lettersEnd) ==
  SubSeq(s, i, IF lettersEnd - 1 > p + 6 THEN p + 6 ELSE lettersEnd - 1)

\* The match from s[i]: the domain run is greedy, so the dot is the last
\* one that two letters follow
MatchAt(s, i, dot) == MatchUpTo(s, i, dot, RunEnd(s, dot + 1, AsciiLetters))

\* s.match(/([a-zA-Z0-9._%+-]+@[a-zA-Z0-9.-]+\.[a-zA-Z]{2,6})/): the leftmost
\* match, every quantifier greedy; <<>> when there is none
EmailMatch(s) ==
  IF \E i \in 1..Len(s) : MatchesFrom(s, i)
  THEN LET i == Least({k \in 1..Len(s) : MatchesFrom(s, k)})
       IN  MatchAt(s, i, Greatest(DomainDots(s, RunEnd(s, i, EmailLocalChars))))
  ELSE <<>>

\* if (emailMatch) cleaned = emailMatch[1]
MatchOrWhole(cleaned) == IF EmailMatch(cleaned) # <<>> THEN EmailMatch(cleaned) ELSE cleaned

\* cleanEmail(email); null and the empty string are both the empty sequence
cleanEmail(email) ==
  IF email = <<>> THEN <<>>
  ELSE LET decoded == DecodeOrKeep(Trim(ToLower(email)))
           noPrefix == DropContacto(DropLeading(decoded, Digits))
       IN  MatchOrWhole(Trim(DropLeadingNot(DropConcatenatedPhones(noPrefix), AsciiLetters)))

\* /(.)\1{4,}/
HasFiveRepeats(s) ==
  \E i \in 1..(Len(s) - 4) : \A j \in (i + 1)..(i + 4) : s[j] = s[i]

\* /\d{6,}/
HasSixDigits(s) ==
  \E i \in 1..(Len(s) - 5) : \A j \in i..(i + 5) : s[j] \in Digits

\* const tld = domainParts[domainParts.length - 1] and its test
TldAllowed(domainParts) ==
  /\ Len(domainParts) >= 2
  /\ ~(domainParts[Len(domainParts)] \notin VALID_TLDS_V4 /\ Len(domainParts[Len(domainParts)]) > 4)

\* The tests of isValidEmail on the two sides of the @
PartsAllowed(local, domain) ==
  /\ Len(local) >= 2 /\ Len(domain) >= 5
  /\ ~HasSixDigits(local)
  /\ TldAllowed(Split(domain, "."))
  /\ \A ignored \in IGNORE_EMAIL_DOMAINS_V4 : ~Includes(domain, ignored)

\* The tests of isValidEmail on the cleaned address
CleanedAllowed(cleaned) ==
  /\ cleaned # <<>>
  /\ Len(cleaned) >= 6 /\ Len(cleaned) <= 60
  /\ ~IncludesChar(cleaned, " ")
  /\ Len(Split(cleaned, "@")) = 2
  /\ PartsAllowed(Split(cleaned, "@")[1], Split(cleaned, "@")[2])
  /\ ~HasFiveRepeats(cleaned)
  /\ \A pattern \in INVALID_EMAIL_PATTERNS : ~Includes(cleaned, pattern)
  /\ \A ext \in FileExtensionsV4 : ~EndsWith(ToLower(cleaned), <<".">> \o ext)

\* isValidEmail(email) of part_002: the address is cleaned again first
isValidEmailV4(email) == CleanedAllowed(cleanEmail(email))

\* /^(123456|654321|000000|111111|999999)/
ObviousPhonePrefixes ==
  { <<"1","2","3","4","5","6">>, <<"6","5","4","3","2","1">>, <<"0","0","0","0","0","0">>,
    <<"1","1","1","1","1","1">>, <<"9","9","9","9","9","9">> }

\* isValidPhone(phone) of part_002
isValidPhoneV4(phone) ==
  LET cleaned == KeepChars(phone, Digits)
  IN  /\ Len(cleaned) >= 9
      /\ Len(cleaned) <= 12
      /\ ~(Len(cleaned) >= 2 /\ \A i \in 1..Len(cleaned) : cleaned[i] = cleaned[1])
      /\ ~\E p \in ObviousPhonePrefixes : StartsWith(cleaned, p)

formatPhone(phone) ==
  LET cleaned == KeepChars(phone, Digits \cup {"+"})
  IN  IF Len(cleaned) = 9
      THEN Slice(cleaned, 0, 3) \o <<" ">> \o Slice(cleaned, 3, 6) \o <<" ">> \o Slice(cleaned, 6, 9)
      ELSE IF StartsWith(cleaned, <<"3","4">>) /\ Len(cleaned) = 11
      THEN <<"+","3","4"," ">> \o Slice(cleaned, 2, 5) \o <<" ">> \o Slice(cleaned, 5, 8)
           \o <<" ">> \o Slice(cleaned, 8, 11)
      ELSE IF StartsWith(cleaned, <<"+","3","4">>) /\ Len(cleaned) = 12
      THEN <<"+","3","4"," ">> \o Slice(cleaned, 3, 6) \o <<" ">> \o Slice(cleaned, 6, 9)
           \o <<" ">> \o Slice(cleaned, 9, 12)
      ELSE cleaned

\* The phrases cleanName removes, in the order of its replace calls
NameNoise ==
  << <<"d","e"," ","e","s","t","e"," ","s","i","t","i","o"," ","w","e","b">>,
     <<"d","e","l"," ","t","r","a","t","a","m","i","e","n","t","o">>,
     <<"V","e","r"," ","m","á","s">>,
     <<"L","e","e","r"," ","m","á","s">>,
     <<"d","e","l"," ","N","e","g","o","c","i","o","T","o","m","a"," ","e","l"," ","c","o","n","t","r","o","l">>,
     <<"T","o","m","a"," ","e","l"," ","c","o","n","t","r","o","l">>,
     <<"d","e","l"," ","N","e","g","o","c","i","o">>,
     <<"-"," ","B","u","s","c","a","r"," ","c","o","n"," ","G","o","o","g","l","e">>,
     <<"|"," ","L","i","n","k","e","d","I","n">>,
     <<"-"," ","G","o","o","g","l","e"," ","M","a","p","s">> >>

\* s.replace(/phrase/gi, '')
RECURSIVE RemoveAll(_, _)
RemoveAll(s, phrase) ==
  IF s = <<>> THEN <<>>
  ELSE IF StartsWith(ToLower(s), ToLower(phrase))
       THEN RemoveAll(SubSeq(s, Len(phrase) + 1, Len(s)), phrase)
       ELSE <<Head(s)>> \o RemoveAll(Tail(s), phrase)

RECURSIVE RemoveEach(_, _)
RemoveEach(s, phrases) ==
  IF phrases = <<>> THEN s ELSE RemoveEach(RemoveAll(s, Head(phrases)), Tail(phrases))

\* Whether \d+\. matches from s[i]
NumberingFrom(s, i) ==
  /\ s[i] \in Digits
  /\ RunEnd(s, i, Digits) <= Len(s)
  /\ s[RunEnd(s, i, Digits)] = "."

\* s without s[i..dot] and the whitespace after it
CutNumbering(s, i, dot) == SubSeq(s, 1, i - 1) \o TrimStart(SubSeq(s, dot + 1, Len(s)))

NumberingAt(s, i) == CutNumbering(s, i, RunEnd(s, i, Digits))

\* s.replace(/\d+\.\s*/, ''): the first run of digits that a dot follows
\* goes, with the dot and the whitespace after it
RemoveNumbering(s) ==
  IF \E i \in 1..Len(s) : NumberingFrom(s, i)
  THEN NumberingAt(s, Least({i \in 1..Len(s) : NumberingFrom(s, i)}))
  ELSE s

cleanName(name) ==
  Trim(CollapseWhitespace(RemoveNumbering(RemoveEach(name, NameNoise))))

\* ------------------------------------------------------------------------
\* The searches of part_002.  An item is one object of the JSON array an AI
\* search parsed (absent properties empty); a Web element is one .result
\* of a DuckDuckGo page, with the EMAIL_REGEX and PHONE_REGEX_ES matches of
\* its snippet.
\* ------------------------------------------------------------------------

BusinessResultV4(name, owner, email, emailVerified, phone, phoneVerified, website, source) ==
  [name |-> name, owner |-> owner, email |-> email, emailVerified |-> emailVerified,
   phone |-> phone, phoneVerified |-> phoneVerified, website |-> website,
   websiteStatus |-> NoStatus, address |-> <<>>, source |-> source]

Business(name, email, phone, website, owner) ==
  [name |-> name, email |-> email, phone |-> phone, website |-> website, owner |-> owner]

\* cleaned && isValidEmail(cleaned): the address in a list, or the empty list
KeptEmail(cleaned) ==
  IF cleaned # <<>> /\ isValidEmailV4(cleaned) THEN <<cleaned>> ELSE <<>>

\* cleanedEmail && isValidEmail(cleanedEmail) ? cleanedEmail : undefined
BizEmail(biz) == First(KeptEmail(cleanEmail(biz.email)))

\* biz.phone && isValidPhone(biz.phone) ? formatPhone(biz.phone) : undefined
BizPhone(biz) ==
  IF biz.phone # <<>> /\ isValidPhoneV4(biz.phone) THEN formatPhone(biz.phone) ELSE <<>>

\* searchWithOpenAI, the loop body
OpenAIResult(biz) ==
  LET result == BusinessResultV4(Slice(cleanName(biz.name), 0, 100), biz.owner, BizEmail(biz),
                                 FALSE, BizPhone(biz), biz.phone # <<>>, biz.website,
                                 "OpenAI Search")
  IN  IF Len(biz.name) < 3 THEN <<>>
      ELSE IF Len(result.name) > 3 THEN <<result>> ELSE <<>>

\* searchEmailsWithAI, the loop body
AIEmailResult(biz) ==
  IF biz.name = <<>> \/ biz.email = <<>> \/ BizEmail(biz) = <<>> THEN <<>>
  ELSE <<BusinessResultV4(Slice(cleanName(biz.name), 0, 100), biz.owner, BizEmail(biz),
                          TRUE, BizPhone(biz), biz.phone # <<>>, biz.website,
                          "AI Email Search")>>

\* searchDirectoriesWithAI, the loop body
DirectoriosResultV4(biz) ==
  IF Len(biz.name) < 3 THEN <<>>
  ELSE <<BusinessResultV4(Slice(cleanName(biz.name), 0, 100), biz.owner, BizEmail(biz),
                          FALSE, BizPhone(biz), biz.phone # <<>>, biz.website,
                          "Directorios")>>

\* searchMoreWithAI, the loop body: owner is not copied
AIExtendedResult(biz) ==
  IF Len(biz.name) < 3 THEN <<>>
  ELSE <<BusinessResultV4(Slice(cleanName(biz.name), 0, 100), <<>>, BizEmail(biz),
                          FALSE, BizPhone(biz), biz.phone # <<>>, biz.website,
                          "AI Extended")>>

\* matches.map(e => cleanEmail(e)).filter(e => e !== null && isValidEmail(e))
RECURSIVE CleanValidEmails(_)
CleanValidEmails(matches) ==
  IF matches = <<>> THEN <<>>
  ELSE KeptEmail(cleanEmail(Head(matches))) \o CleanValidEmails(Tail(matches))

\* searchDuckDuckGo of part_002, the .each callback
WebResult(el) ==
  LET title == Trim(el.name)
      name == cleanName(title)
      snippetEmails == CleanValidEmails(el.emails)
      snippetPhones == SelectSeq(el.phones, isValidPhoneV4)
      website == IF el.link # <<>> /\ ~StartsWith(el.link, Http) THEN Https \o el.link ELSE el.link
  IN  IF Len(title) < 3 \/ Len(name) < 3 THEN <<>>
      ELSE IF website # <<>> \/ snippetEmails # <<>> \/ snippetPhones # <<>>
      THEN <<BusinessResultV4(Slice(name, 0, 100), <<>>, First(snippetEmails), FALSE,
                              IF snippetPhones # <<>> THEN formatPhone(snippetPhones[1]) ELSE <<>>,
                              snippetPhones # <<>>, website, "Web")>>
      ELSE <<>>

\* The searches POST starts, in the order of searchPromises; the three AI
\* searches only with an OPENAI_API_KEY
SearchNames ==
  <<"searchDuckDuckGo", "searchWithOpenAI", "searchEmailsWithAI", "searchDirectoriesWithAI">>

\* What a search returns for the items it was served
RECURSIVE ParseItems(_, _)
ParseItems(s, items) ==
  IF items = <<>> THEN <<>>
  ELSE (CASE s = "searchDuckDuckGo" -> WebResult(Head(items))
          [] s = "searchWithOpenAI" -> OpenAIResult(Head(items))
          [] s = "searchEmailsWithAI" -> AIEmailResult(Head(items))
          [] s = "searchDirectoriesWithAI" -> DirectoriosResultV4(Head(items))
          [] s = "searchMoreWithAI" -> AIExtendedResult(Head(items)))
       \o ParseItems(s, Tail(items))

\* ------------------------------------------------------------------------
\* deduplicateResults and the two sorts of part_002
\* ------------------------------------------------------------------------

\* xs.sort((a, b) => score(b) - score(a)) for the scores given per index:
\* stable, descending
StableSortDesc(xs, score) ==
  LET Position(i) == 1 + Cardinality({j \in 1..Len(xs) :
                         score[j] > score[i] \/ (score[j] = score[i] /\ j < i)})
  IN  [k \in 1..Len(xs) |-> xs[CHOOSE i \in 1..Len(xs) : Position(i) = k]]

DedupScore(r) ==
  (IF r.email # <<>> THEN 10 ELSE 0) + (IF r.phone # <<>> THEN 3 ELSE 0)
  + (IF r.emailVerified THEN 5 ELSE 0)

\* A deduplication that walks its argument in the order given
SortedForDedup_InputOrder(results) == results

\* results.sort(...) inside deduplicateResults: the argument is sorted in place
SortedForDedup(results) ==
  StableSortDesc(results, [i \in 1..Len(results) |-> DedupScore(results[i])])

AccentedLetters == {"á", "é", "í", "ó", "ú", "ñ"}

\* result.name.toLowerCase().replace(/[^a-z...0-9]/g, '').slice(0, 25)
NameKeyV4(name) ==
  Slice(KeepChars(ToLower(name), Letters \cup AccentedLetters \cup Digits), 0, 25)

RECURSIVE DedupLoopV4(_, _, _)
DedupLoopV4(results, seenNames, unique) ==
  IF results = <<>> THEN unique
  ELSE LET key == NameKeyV4(Head(results).name)
       IN  IF key \notin seenNames /\ Len(key) > 3
           THEN DedupLoopV4(Tail(results), seenNames \cup {key}, Append(unique, Head(results)))
           ELSE DedupLoopV4(Tail(results), seenNames, unique)

deduplicateResults(results) == DedupLoopV4(SortedForDedup(results), {}, <<>>)

FinalScore(r) ==
  (IF r.email # <<>> THEN 10 ELSE 0) + (IF r.phone # <<>> THEN 3 ELSE 0)
  + (IF r.owner # <<>> THEN 1 ELSE 0) + (IF r.website # <<>> THEN 1 ELSE 0)

\* A response that filters and sorts but does not cut
ValidResults_Uncut(enrichedResults, maxResults) ==
  LET valid == SelectSeq(enrichedResults, LAMBDA r : r.email # <<>> \/ r.phone # <<>>)
  IN  StableSortDesc(valid, [i \in 1..Len(valid) |-> FinalScore(valid[i])])

\* enrichedResults.filter(r => r.email || r.phone).slice(0, maxResults),
\* then the sort
ValidResults(enrichedResults, maxResults) ==
  LET valid == Slice(SelectSeq(enrichedResults, LAMBDA r : r.email # <<>> \/ r.phone # <<>>),
                     0, maxResults)
  IN  StableSortDesc(valid, [i \in 1..Len(valid) |-> FinalScore(valid[i])])

\* ------------------------------------------------------------------------
\* scrapeWebsite of part_002.  A document is
\*   mailto  the targets of a[href^="mailto:"], scheme removed
\*   text    the EMAIL_REGEX matches of the body text
\*   meta    the EMAIL_REGEX matches of the meta contents
\*   tel     the targets of a[href^="tel:"], scheme removed
\*   phones  the PHONE_REGEX_ES matches of the body text
\*   owners  the matches of the owner pattern in the body text, whole
\*           (the pattern has the g flag: match() returns no groups)
\* ------------------------------------------------------------------------

NoDocV4 ==
  [mailto |-> <<>>, text |-> <<>>, meta |-> <<>>, tel |-> <<>>, phones |-> <<>>, owners |-> <<>>]

\* href.replace('mailto:', '').split('?')[0].split('&')[0], per link
RECURSIVE HomeMailtos(_)
HomeMailtos(hrefs) ==
  IF hrefs = <<>> THEN <<>>
  ELSE <<Split(Split(Head(hrefs), "?")[1], "&")[1]>> \o HomeMailtos(Tail(hrefs))

\* href.replace('mailto:', '').split('?')[0], per link
RECURSIVE ContactMailtos(_)
ContactMailtos(hrefs) ==
  IF hrefs = <<>> THEN <<>>
  ELSE <<Split(Head(hrefs), "?")[1]>> \o ContactMailtos(Tail(hrefs))

RECURSIVE ValidPhonesV4(_)
ValidPhonesV4(matches) ==
  IF matches = <<>> THEN <<>>
  ELSE (IF isValidPhoneV4(Head(matches)) THEN <<formatPhone(Head(matches))>> ELSE <<>>)
       \o ValidPhonesV4(Tail(matches))

\* What the homepage gives: emails, phones and owner = match[1]?.trim(),
\* the second match of the pattern
HomeScrape(doc) ==
  [NoScrape EXCEPT
     !.emails = Distinct(CleanValidEmails(HomeMailtos(doc.mailto))
                         \o CleanValidEmails(doc.text) \o CleanValidEmails(doc.meta)),
     !.phones = Distinct(ValidPhonesV4(TelTargets(doc.tel)) \o ValidPhonesV4(doc.phones)),
     !.owner = IF Len(doc.owners) >= 2 THEN Trim(doc.owners[2]) ELSE <<>>]

\* What a contact page adds: emails only
AddContactPage(scraped, doc) ==
  [scraped EXCEPT !.emails = Distinct(@ \o CleanValidEmails(ContactMailtos(doc.mailto))
                                        \o CleanValidEmails(doc.text))]

\* contactUrls: /contacto, /contact, /contactar, /sobre-nosotros, /quienes-somos
ContactPaths == 5

\* ------------------------------------------------------------------------
\* POST of part_002.  pc is "parsing" (await request.json()), "searching"
\* (await Promise.all(searchPromises)), "extending" (await searchMoreWithAI),
\* "scraping" (await Promise.all of the enrichment callbacks), "done".
\* The scope says whether the process has an OPENAI_API_KEY.
\* ------------------------------------------------------------------------

useOpenAI == scope = "v4key"

\* searchPromises
Searches == IF useOpenAI THEN {SearchNames[k] : k \in 1..4} ELSE {SearchNames[1]}

T_ElSolMaps == T_ElSol \o <<" ","-"," ","G","o","o","g","l","e"," ","M","a","p","s">>

M_ContactoAna == <<"c","o","n","t","a","c","t","o","+">> \o M_Ana

\* What each search may be served
ItemsV4(s) ==
  CASE s = "searchDuckDuckGo" ->
         { Element(T_ElSolMaps, <<>>, <<>>, U_Solvet),
           Element(T_BarUno, <<M_Info>>, <<P_Mobile>>, <<>>) }
    [] s = "searchWithOpenAI" ->
         { Business(T_BarUno, <<>>, <<>>, Https \o U_Solvet, <<>>),
           Business(T_CasaLuz, M_ContactoAna, P_Short, <<>>, O_Juan) }
    [] s = "searchEmailsWithAI" ->
         { Business(T_ElSol, M_Ana, <<>>, <<>>, <<>>) }
    [] s = "searchDirectoriesWithAI" ->
         { Business(T_ElSolNorte, <<>>, P_Mobile, <<>>, <<>>),
           Business(T_Abc, <<>>, P_Mobile, <<>>, <<>>) }
    [] s = "searchMoreWithAI" ->
         { Business(T_ElSolNorteBar, M_Info, <<>>, <<>>, O_Juan),
           Business(T_BarUno, <<>>, <<>>, <<>>, <<>>) }

\* The length of the long list a directory search may be served
ListingSize == 12

LocalName(k) == <<"L","o","c","a","l"," ">> \o <<LowerChars[k]>>

\* A directory listing: businesses with a phone and nothing else
Listing == [k \in 1..ListingSize |-> Business(LocalName(k), <<>>, P_Mobile, <<>>, <<>>)]

\* A search is served no item or one; the directory search may also be
\* served the long listing
ServedV4(s) ==
  {<<>>} \cup {<<item>> : item \in ItemsV4(s)}
  \cup (IF s = "searchDirectoriesWithAI" THEN {Listing} ELSE {})

\* maxResults values below the default that a request may carry
MaxResultsV4 == 1

\* maxResults (30 when the body has none; 31 opens the extended search) and
\* the verifyContacts a client of the earlier version still sends, which
\* the destructuring does not take
OptionsV4 == [read : {TRUE}, maxResults : (0..MaxResultsV4) \cup {31}, verifyContacts : BOOLEAN]

InitV4 ==
  /\ scope \in {"v4", "v4key"}
  /\ home = NotMounted
  /\ call = NoCall
  /\ silent = {}
  /\ request \in Requests
  /\ options = NotRead
  /\ pc = "parsing"
  /\ response = NoResponse
  /\ adapter = [a \in Adapters |-> IdleAdapter]
  /\ allResults = <<>>
  /\ uniqueResults = <<>>
  /\ finalResults = <<>>
  /\ task = <<>>

\* request.json() settles: a body that does not parse throws into the catch;
\* a falsy query or location answers 400; else the searches are started
ValidateV4 ==
  /\ pc = "parsing"
  /\ IF ~request.parses
     THEN /\ pc' = "done"
          /\ response' = [NoResponse EXCEPT !.status = 500]
          /\ UNCHANGED <<options, adapter>>
     ELSE IF ~request.query \/ ~request.location
     THEN /\ pc' = "done"
          /\ response' = [NoResponse EXCEPT !.status = 400]
          /\ \E o \in OptionsV4 : options' = o
          /\ UNCHANGED adapter
     ELSE /\ pc' = "searching"
          /\ \E o \in OptionsV4 : options' = o
          /\ adapter' = [s \in Searches |-> [IdleAdapter EXCEPT !.phase = "running"]]
          /\ UNCHANGED response
  /\ UNCHANGED <<home, call, scope, silent, request, allResults, uniqueResults, finalResults, task>>

\* A search returns what it built from the items it was served; its own
\* try/catch makes a failure an empty or shorter list
SearchReturns(s) ==
  /\ pc = "searching"
  /\ s \in DOMAIN adapter
  /\ adapter[s].phase = "running"
  /\ \E items \in ServedV4(s) :
       adapter' = [adapter EXCEPT ![s] = [@ EXCEPT !.phase = "done", !.results = ParseItems(s, items)]]
  /\ UNCHANGED <<home, call, scope, silent, request, options, pc, response, allResults, uniqueResults, finalResults, task>>

\* searchResults.flat(), in the order of searchPromises
RECURSIVE Flat(_, _)
Flat(ad, k) ==
  IF k > Len(SearchNames) THEN <<>>
  ELSE (IF SearchNames[k] \in DOMAIN ad THEN ad[SearchNames[k]].results ELSE <<>>) \o Flat(ad, k + 1)

\* The callback of limitedResults.map up to its first await: only a
\* candidate with a website and no email is scraped
TaskStartV4(result) ==
  IF result.website # <<>> /\ result.email = <<>>
  THEN [IdleTask EXCEPT !.phase = "home_headers"]
  ELSE IdleTask

\* uniqueResults.slice(0, maxResults + 10) and the start of every callback
StartScraping(unique) ==
  LET limitedResults == Slice(unique, 0, options.maxResults + 10)
  IN  /\ pc' = "scraping"
      /\ finalResults' = limitedResults
      /\ task' = [i \in 1..Len(limitedResults) |-> TaskStartV4(limitedResults[i])]

\* Promise.all(searchPromises) resolves: combine, deduplicate, and either
\* ask for more or go on to the enrichment
SearchesJoin ==
  /\ pc = "searching"
  /\ \A s \in DOMAIN adapter : adapter[s].phase = "done"
  /\ LET unique == deduplicateResults(Flat(adapter, 1))
     IN  /\ allResults' = SortedForDedup(Flat(adapter, 1))
         /\ uniqueResults' = unique
         /\ IF useOpenAI /\ Len(unique) < options.maxResults /\ options.maxResults > 30
            THEN pc' = "extending" /\ UNCHANGED <<finalResults, task>>
            ELSE StartScraping(unique)
  /\ UNCHANGED <<home, call, scope, silent, request, options, response, adapter>>

\* searchMoreWithAI returns: its results join the unique ones and the list
\* is deduplicated again
ExtendedSearchReturns ==
  /\ pc = "extending"
  /\ \E items \in ServedV4("searchMoreWithAI") :
       LET all == uniqueResults \o ParseItems("searchMoreWithAI", items)
       IN  /\ allResults' = SortedForDedup(all)
           /\ uniqueResults' = deduplicateResults(all)
           /\ StartScraping(deduplicateResults(all))
  /\ UNCHANGED <<home, call, scope, silent, request, options, response, adapter>>

\* An email among matches that are none: an image name, a three-digit tel: link
D_InfoV4 == [NoDocV4 EXCEPT !.mailto = <<M_Info>>, !.text = <<M_Logo>>, !.tel = <<P_Short>>]

D_AnaV4 == [NoDocV4 EXCEPT !.text = <<M_ContactoAna>>]

Gerente == <<"G","e","r","e","n","t","e",":"," ">>

D_PhoneOwner == [NoDocV4 EXCEPT !.tel = <<P_Mobile>>, !.owners = <<Gerente \o O_Juan, Gerente \o O_Juan>>]

HomeDocsV4 == {NoDocV4, D_InfoV4, D_PhoneOwner}

ContactDocsV4 == {NoDocV4, D_AnaV4}

\* What the callback copies from the scrape into the candidate
MergeScrapedV4(result, scraped) ==
  LET r1 == IF scraped.emails # <<>>
            THEN [result EXCEPT !.email = scraped.emails[1], !.emailVerified = TRUE] ELSE result
      r2 == IF r1.phone = <<>> /\ scraped.phones # <<>>
            THEN [r1 EXCEPT !.phone = scraped.phones[1], !.phoneVerified = TRUE] ELSE r1
  IN  IF scraped.owner # <<>> /\ r2.owner = <<>> THEN [r2 EXCEPT !.owner = scraped.owner] ELSE r2

\* scrapeWebsite returns and the callback merges
FinishScrapeV4(i, scraped) ==
  /\ finalResults' = [finalResults EXCEPT ![i] = MergeScrapedV4(@, scraped)]
  /\ task' = [task EXCEPT ![i] = [IdleTask EXCEPT !.scraped = scraped]]

Scraping(i, phase) == pc = "scraping" /\ i \in 1..Len(task) /\ task[i].phase = phase

\* homepage: fetchSafe resolves with a response; a non-OK one returns empty
HomeHeadersV4(i) ==
  /\ Scraping(i, "home_headers")
  /\ \E status \in Statuses :
       IF IsOk(status)
       THEN /\ task' = [task EXCEPT ![i].phase = "home_body"]
            /\ UNCHANGED finalResults
       ELSE FinishScrapeV4(i, NoScrape)
  /\ TaskFrame

\* homepage: fetchSafe catches the failure or the abort and returns null
HomeFailsV4(i) ==
  /\ Scraping(i, "home_headers")
  /\ FinishScrapeV4(i, NoScrape)
  /\ TaskFrame

\* homepage: the body arrives; with no email found the contact pages follow,
\* one after the other
HomeBodyV4(i) ==
  /\ Scraping(i, "home_body")
  /\ \E doc \in HomeDocsV4 :
       IF HomeScrape(doc).emails = <<>>
       THEN /\ task' = [task EXCEPT ![i].phase = "contact_headers", ![i].nHeaders = ContactPaths,
                                    ![i].scraped = HomeScrape(doc)]
            /\ UNCHANGED finalResults
       ELSE FinishScrapeV4(i, HomeScrape(doc))
  /\ TaskFrame

\* homepage: response.text() rejects; the outer catch returns the empty sets
HomeBodyFailsV4(i) ==
  /\ Scraping(i, "home_body")
  /\ FinishScrapeV4(i, NoScrape)
  /\ TaskFrame

\* The loop over contactUrls moves to its next path, or ends
NextContact(i, t) ==
  IF t.nHeaders > 1
  THEN /\ task' = [task EXCEPT ![i] = [t EXCEPT !.phase = "contact_headers", !.nHeaders = @ - 1]]
       /\ UNCHANGED finalResults
  ELSE FinishScrapeV4(i, t.scraped)

\* contact page: fetchSafe resolves with a response; a non-OK one is skipped
ContactHeadersV4(i) ==
  /\ Scraping(i, "contact_headers")
  /\ \E status \in Statuses :
       IF IsOk(status)
       THEN /\ task' = [task EXCEPT ![i].phase = "contact_body"]
            /\ UNCHANGED finalResults
       ELSE NextContact(i, task[i])
  /\ TaskFrame

\* contact page: fetchSafe returns null
ContactFailsV4(i) ==
  /\ Scraping(i, "contact_headers")
  /\ NextContact(i, task[i])
  /\ TaskFrame

\* contact page: the body arrives; the loop breaks at the first page that
\* leaves the set of emails non-empty
ContactBodyV4(i) ==
  /\ Scraping(i, "contact_body")
  /\ \E doc \in ContactDocsV4 :
       LET scraped == AddContactPage(task[i].scraped, doc)
       IN  IF scraped.emails # <<>>
           THEN FinishScrapeV4(i, scraped)
           ELSE NextContact(i, task[i])
  /\ TaskFrame

\* contact page: response.text() rejects; the inner catch continues
ContactBodyFailsV4(i) ==
  /\ Scraping(i, "contact_body")
  /\ NextContact(i, task[i])
  /\ TaskFrame

\* Promise.all of the callbacks resolves: filter, cut, sort, answer
RespondV4 ==
  /\ pc = "scraping"
  /\ \A i \in 1..Len(task) : task[i].phase = "done"
  /\ pc' = "done"
  /\ response' = [status |-> 200, results |-> ValidResults(finalResults, options.maxResults)]
  /\ UNCHANGED <<home, call, scope, silent, request, options, adapter, allResults, uniqueResults, finalResults, task>>

NextV4 ==
  \/ ValidateV4
  \/ \E k \in 1..Len(SearchNames) : SearchReturns(SearchNames[k])
  \/ SearchesJoin
  \/ ExtendedSearchReturns
  \/ \E i \in 1..Len(task) : HomeHeadersV4(i)
  \/ \E i \in 1..Len(task) : HomeFailsV4(i)
  \/ \E i \in 1..Len(task) : HomeBodyV4(i)
  \/ \E i \in 1..Len(task) : HomeBodyFailsV4(i)
  \/ \E i \in 1..Len(task) : ContactHeadersV4(i)
  \/ \E i \in 1..Len(task) : ContactFailsV4(i)
  \/ \E i \in 1..Len(task) : ContactBodyV4(i)
  \/ \E i \in 1..Len(task) : ContactBodyFailsV4(i)
  \/ RespondV4

SpecV4 == InitV4 /\ [][NextV4]_vars

\* Both versions of the route, each serving its own requests
SpecVersions == (Init \/ InitV4) /\ [][Next \/ NextV4]_vars

\* The sort of route.ts on the enriched candidates, and version 4.3.0
SpecRankVersions == (InitRank \/ InitV4) /\ [][NextRank \/ NextV4]_vars

\* The enrichment of both versions: one candidate of route.ts with the rich
\* pages, and the requests of part_002
SpecEnrichVersions == (InitEnrich \/ InitV4) /\ [][NextEnrich \/ NextV4]_vars

\* ------------------------------------------------------------------------
\* The helpers called on their own, on bounded arguments
\* ------------------------------------------------------------------------

\* The longest digit string handed to the phone validators
MaxPhoneLen == 16

Keypad == <<"6","1","2","3","4","5","6","7","8","9">>

\* n digits that neither repeat one digit nor start with a zero
DigitRun(n) == [i \in 1..n |-> Keypad[((i - 1) % 10) + 1]]

Repeated(c, n) == [i \in 1..n |-> c]

P_Spaced == <<"+","3","4"," ","6","1","2"," ","3","4","5"," ","6","7","8">>

P_Dashed == <<"6","1","2","-","3","4","5","-","6","7","8">>

P_Landline == <<"(","9","1",")"," ","5","5","5"," ","1","2"," ","3","4">>

P_Ones == <<"1","1","1","1","1","1","1","1","1">>

P_ZerosOne == <<"0","0","0","0","0","0","0","0","1">>

P_Counting == <<"1","2","3","4","5","6","7","8","9">>

P_Nines == <<"9","9","9","9","9","9","1","2","3">>

P_International == <<"0","0","3","4","6","1","2","3","4","5","6","7","8">>

\* Strings a page, a listing or an AI answer may give as a phone
PhoneInputs ==
  UNION { { DigitRun(n), Repeated("7", n), <<"0">> \o DigitRun(n - 1),
            <<"0","0">> \o DigitRun(n - 2) } : n \in 8..MaxPhoneLen }
  \cup { <<>>, P_Short, P_Spaced, P_Dashed, P_Landline, P_Ones, P_ZerosOne, P_Counting,
         P_Nines, P_International }

PhoneCalls ==
  [fn : {"isValidPhone", "isValidPhoneV4"}, arg : PhoneInputs, returned : {FALSE}, result : {FALSE}]

InitValidator ==
  /\ scope = "validator"
  /\ home = NotMounted
  /\ call \in PhoneCalls
  /\ silent = {}
  /\ request = GoodRequest
  /\ InitCommon

HelperFrame ==
  UNCHANGED <<home, scope, silent, request, options, pc, response, adapter, allResults, uniqueResults, finalResults, task>>

\* isValidPhone(phone) of route.ts returns
CallIsValidPhone ==
  /\ call.fn = "isValidPhone"
  /\ ~call.returned
  /\ call' = [call EXCEPT !.returned = TRUE, !.result = isValidPhone(call.arg)]
  /\ HelperFrame

\* isValidPhone(phone) of part_002 returns
CallIsValidPhoneV4 ==
  /\ call.fn = "isValidPhoneV4"
  /\ ~call.returned
  /\ call' = [call EXCEPT !.returned = TRUE, !.result = isValidPhoneV4(call.arg)]
  /\ HelperFrame

NextValidator == CallIsValidPhone \/ CallIsValidPhoneV4

SpecValidator == InitValidator /\ [][NextValidator]_vars

\* The role-account prefixes the specification names for isGenericEmail; the
\* sources at hand hold no such function
GenericPrefixes ==
  { <<"i","n","f","o">>, <<"c","o","n","t","a","c","t">>, <<"a","d","m","i","n">>,
    <<"s","a","l","e","s">>, <<"s","u","p","p","o","r","t">>, <<"n","o","r","e","p","l","y">> }

\* true if the local part starts with a role-account prefix
isGenericEmail(email) ==
  \E p \in GenericPrefixes : StartsWith(ToLower(Split(email, "@")[1]), p)

\* C1, as stated: every candidate POST returns has a verified email, or a
\* phone, or a website.
C1_VerifiedEmailOrPhoneOrWebsite ==
  \A i \in 1..Len(response.results) :
    LET r == response.results[i]
    IN  (r.email # <<>> /\ r.emailVerified) \/ r.phone # <<>> \/ r.website # <<>>

\* C1, amended: every candidate POST returns has an email (verified or not),
\* or a phone, or a website.
C1_EmailOrPhoneOrWebsite ==
  \A i \in 1..Len(response.results) :
    LET r == response.results[i]
    IN  r.email # <<>> \/ r.phone # <<>> \/ r.website # <<>>

\* C1: POST has answered; the filter dropped a candidate and kept one whose
\* only contact is an email that was not verified
C1_Witness ==
  /\ response.status = 200
  /\ Len(response.results) < Len(finalResults)
  /\ \E i \in 1..Len(response.results) :
       LET r == response.results[i]
       IN  r.email # <<>> /\ ~r.emailVerified /\ r.phone = <<>> /\ r.website = <<>>

C8_NoFailureAborts ==
  (request.parses /\ request.query /\ request.location) =>
    /\ response.status \in {0, 200}
    /\ (pc = "done" => response.status = 200)

\* C8: POST answered 200 with a candidate whose homepage fetch failed or
\* answered non-OK; the candidate is there, without enrichment
C8_Witness ==
  /\ response.status = 200
  /\ \E i \in 1..Len(response.results) :
       LET r == response.results[i]
       IN  r.website # <<>> /\ r.websiteStatus \in {0, 404, 503} /\ r.email = <<>>

\* C3, as stated: two raw candidates with the same key collapse to exactly
\* one deduplicated candidate, and when one comes from a structured
\* directory (Paginas Amarillas, Yelp) and the other from a free-text search
\* (Direct Search, DuckDuckGo), the survivor is from the structured directory.
C3_StructuredSourceSurvives ==
  pc = "limiting" =>
    \A i, j \in 1..Len(allResults) :
      (i < j /\ NameKey(allResults[i].name) = NameKey(allResults[j].name)) =>
        LET structured == {"Paginas Amarillas", "Yelp"}
            freeText == {"Direct Search", "DuckDuckGo"}
            survivors == {u \in 1..Len(uniqueResults) :
                            NameKey(uniqueResults[u].name) = NameKey(allResults[i].name)}
            sources == {allResults[i].source, allResults[j].source}
        IN  /\ Cardinality(survivors) = 1
            /\ (sources \cap structured # {} /\ sources \cap freeText # {}) =>
                 \A u \in survivors : uniqueResults[u].source \in structured

\* C3, amended: no two deduplicated candidates share a key; of the raw
\* candidates with one key, the survivor is the first in the combined order
\* (Direct Search, Paginas Amarillas, DuckDuckGo, Directorios, Yelp) whose
\* normalized name is longer than 3 characters, and there is no survivor
\* when none is.
C3_FirstLongNameSurvives ==
  pc = "limiting" =>
    /\ \A u, v \in 1..Len(uniqueResults) :
         u # v => NameKey(uniqueResults[u].name) # NameKey(uniqueResults[v].name)
    /\ allResults = Combined(adapter)
    /\ \A i \in 1..Len(allResults) :
         LET long == {j \in 1..Len(allResults) :
                        /\ NameKey(allResults[j].name) = NameKey(allResults[i].name)
                        /\ Len(NormalizedName(allResults[j].name)) > 3}
             survivors == {u \in 1..Len(uniqueResults) :
                             NameKey(uniqueResults[u].name) = NameKey(allResults[i].name)}
         IN  IF long = {} THEN survivors = {}
             ELSE /\ Cardinality(survivors) = 1
                  /\ \A u \in survivors :
                       uniqueResults[u] = allResults[CHOOSE j \in long : \A k \in long : j <= k]

\* C3: a DuckDuckGo candidate and a Yelp candidate share a key, and the
\* DuckDuckGo one, earlier in the combined order, is the survivor
C3_Witness ==
  /\ pc = "limiting"
  /\ \E i, j \in 1..Len(allResults) :
       /\ i < j
       /\ NameKey(allResults[i].name) = NameKey(allResults[j].name)
       /\ allResults[i].source = "DuckDuckGo"
       /\ allResults[j].source = "Yelp"
       /\ \E u \in 1..Len(uniqueResults) : uniqueResults[u] = allResults[i]
       /\ \A u \in 1..Len(uniqueResults) : uniqueResults[u] # allResults[j]

\* C4: once a candidate's crawl has found a generic and a personal email,
\* the candidate's email is a personal one.
C4_PersonalBeatsGeneric ==
  \A i \in 1..Len(task) :
    (/\ pc = "enriching"
     /\ task[i].phase = "done"
     /\ \E e \in 1..Len(task[i].scraped.emails) : isGenericEmail(task[i].scraped.emails[e])
     /\ \E e \in 1..Len(task[i].scraped.emails) : ~isGenericEmail(task[i].scraped.emails[e]))
    => (finalResults[i].email # <<>> /\ ~isGenericEmail(finalResults[i].email))

\* C5: while candidates are enriched, a candidate that holds an email keeps
\* that same email in every step, whatever its crawl returns (a personal
\* email in particular is never replaced).
C5_HeldEmailKept ==
  [][ pc = "enriching" =>
        \A i \in 1..Len(finalResults) :
          finalResults[i].email # <<>> =>
            /\ i <= Len(finalResults')
            /\ finalResults'[i].email = finalResults[i].email ]_vars

\* C5: a candidate's crawl answered and found only info@, and the candidate
\* holds ana@: it held it before the crawl, and holds it after
C5_Witness ==
  /\ pc = "enriching"
  /\ \E i \in 1..Len(task) :
       /\ task[i].phase = "done"
       /\ finalResults[i].websiteStatus = 200
       /\ task[i].scraped.emails = <<M_Info>>
       /\ finalResults[i].email = M_Ana

C7_AdapterKeepsPartialResults ==
  [][ /\ \A a \in Adapters :
           /\ Len(adapter[a].results) <= Len(adapter'[a].results)
           /\ SubSeq(adapter'[a].results, 1, Len(adapter[a].results)) = adapter[a].results
           /\ adapter[a].phase = "headers" => adapter'[a].results = adapter[a].results
      /\ pc = "fetching" =>
           \A a, b \in Adapters : (a # b /\ adapter'[a] # adapter[a]) => adapter'[b] = adapter[b]
      /\ pc' = "deduplicating" => allResults' = Combined(adapter')
      /\ request.parses => response'.status # 500 ]_vars

\* C7: every query of Paginas Amarillas timed out, it returned the empty
\* list, and the combined list holds what DuckDuckGo and Yelp returned
C7_Witness ==
  /\ pc = "deduplicating"
  /\ silent = {"PaginasAmarillas"}
  /\ adapter["PaginasAmarillas"].elapsed = NumQueries("PaginasAmarillas") * PrimaryTimeout
  /\ adapter["PaginasAmarillas"].results = <<>>
  /\ adapter["DuckDuckGo"].results # <<>>
  /\ adapter["Yelp"].results # <<>>
  /\ allResults = adapter["DuckDuckGo"].results \o adapter["Yelp"].results

\* C9: every request is eventually answered, whichever endpoints never
\* respond and whichever bodies never complete.
C9_EveryRequestAnswered == <>(pc = "done" /\ response.status # 0)

\* C10: when the adapters have settled, none has waited longer than one
\* primary-search timeout, so the Fetching stage took no longer on account
\* of a silent endpoint.
C10_OneTimeoutBudget ==
  pc = "deduplicating" => \A a \in Adapters : adapter[a].elapsed <= PrimaryTimeout

\* C11: while candidates are enriched and verified, in route.ts and in
\* part_002 alike, no step deletes or overwrites a populated name, owner,
\* email, phone, address or source of a candidate: the only writes to these
\* fields fill an empty one (source, a constant of the adapter, is never
\* empty).
C11_PopulatedFieldsKept ==
  [][ (pc = "enriching" \/ pc = "scraping") =>
        /\ Len(finalResults') = Len(finalResults)
        /\ \A i \in 1..Len(finalResults) :
             LET old == finalResults[i]
                 new == finalResults'[i]
             IN  /\ old.name # <<>> => new.name = old.name
                 /\ old.owner # <<>> => new.owner = old.owner
                 /\ old.email # <<>> => new.email = old.email
                 /\ old.phone # <<>> => new.phone = old.phone
                 /\ old.address # <<>> => new.address = old.address
                 /\ new.source = old.source ]_vars

\* C11: a candidate went through both stages: the crawl offered another
\* email than the one held and filled the empty owner, and both probes of
\* the verifier failed; the held email is still there
C11_Witness ==
  /\ pc = "enriching"
  /\ \E i \in 1..Len(task) :
       /\ task[i].phase = "done"
       /\ task[i].probe = "failed"
       /\ task[i].scraped.emails # <<>>
       /\ finalResults[i].email # <<>>
       /\ finalResults[i].email # task[i].scraped.emails[1]
       /\ task[i].scraped.owner # <<>>
       /\ finalResults[i].owner = task[i].scraped.owner

\* C12: once a candidate's verification is over, a candidate with an email
\* has emailVerified true exactly when the probe that answered (https first,
\* http when https threw) returned a status below 500 or both probes threw;
\* a candidate without an email was not probed and has emailVerified false.
C12_VerdictFollowsProbe ==
  pc = "enriching" =>
    \A i \in 1..Len(task) :
      task[i].phase = "done" =>
        IF finalResults[i].email # <<>>
        THEN /\ task[i].probe \in {"https", "http", "failed"}
             /\ finalResults[i].emailVerified =
                  (\/ task[i].probe \in {"https", "http"} /\ task[i].domainCheck < 500
                   \/ task[i].probe = "failed")
        ELSE /\ task[i].probe = "none"
             /\ finalResults[i].emailVerified = FALSE

\* C12: the https probe threw and the http fallback answered 404: the email
\* counts as verified
C12_Witness ==
  /\ pc = "enriching"
  /\ \E i \in 1..Len(task) :
       /\ task[i].phase = "done"
       /\ finalResults[i].email # <<>>
       /\ task[i].probe = "http"
       /\ task[i].domainCheck = 404
       /\ finalResults[i].emailVerified

\* C13: once a candidate's enrichment and verification are over, a website
\* whose homepage fetch failed or timed out (status 0: no response) has
\* been cleared from the candidate.
C13_UnreachableWebsiteCleared ==
  pc = "enriching" =>
    \A i \in 1..Len(task) :
      (task[i].phase = "done" /\ finalResults[i].websiteStatus = 0)
        => finalResults[i].website = <<>>

C18_FirstPerKeyKept ==
  pc = "limiting" =>
    LET firsts == {i \in 1..Len(allResults) :
                     \A j \in 1..(i - 1) :
                       NameKey(allResults[j].name) # NameKey(allResults[i].name)}
    IN  /\ Len(uniqueResults) = Cardinality(firsts)
        /\ \A u \in 1..Len(uniqueResults) :
             uniqueResults[u] =
               allResults[CHOOSE i \in firsts : Cardinality({k \in firsts : k < i}) = u - 1]

\* C18, amended: the deduplicated list is the combined list restricted, for
\* each key, to the first candidate whose normalized name is longer than 3
\* characters (none if there is none), with all fields unchanged and in the
\* same relative order; every other candidate is dropped whole.
C18_FirstLongPerKeyKept ==
  pc = "limiting" =>
    LET long == {i \in 1..Len(allResults) : Len(NormalizedName(allResults[i].name)) > 3}
        kept == {i \in long :
                   \A j \in long : j < i =>
                     NameKey(allResults[j].name) # NameKey(allResults[i].name)}
    IN  /\ Len(uniqueResults) = Cardinality(kept)
        /\ \A u \in 1..Len(uniqueResults) :
             uniqueResults[u] =
               allResults[CHOOSE i \in kept : Cardinality({k \in kept : k < i}) = u - 1]

\* C18: a candidate without a phone survives, a later candidate with the
\* same key and a phone is dropped, and the survivor still has no phone;
\* another survivor stands before it, as in the combined list
C18_Witness ==
  /\ pc = "limiting"
  /\ \E i, j \in 1..Len(allResults) :
       /\ i < j
       /\ NameKey(allResults[i].name) = NameKey(allResults[j].name)
       /\ allResults[i].phone = <<>>
       /\ allResults[j].phone # <<>>
       /\ \E u \in 2..Len(uniqueResults) : uniqueResults[u] = allResults[i]
       /\ \A u \in 1..Len(uniqueResults) : uniqueResults[u].name # allResults[j].name

\* C19, as stated: a candidate whose key has fewer than 4 characters is not
\* in the deduplicated list, whether or not its key collides; a candidate
\* whose key has at least 4 characters and that is the first of the combined
\* list with that key is in the deduplicated list.
C19_ShortKeyDiscarded ==
  pc = "limiting" =>
    \A i \in 1..Len(allResults) :
      LET key == NameKey(allResults[i].name)
      IN  /\ Len(key) < 4 =>
               \A u \in 1..Len(uniqueResults) : uniqueResults[u] # allResults[i]
          /\ (Len(key) >= 4 /\ \A j \in 1..(i - 1) : NameKey(allResults[j].name) # key) =>
               \E u \in 1..Len(uniqueResults) : uniqueResults[u] = allResults[i]

\* C19, amended: the length tested is that of the normalized name, spaces
\* between its words included.  A candidate whose normalized name has fewer
\* than 4 characters is not in the deduplicated list, whether or not its key
\* collides; a candidate whose normalized name has at least 4 characters is
\* in it when no earlier candidate with such a name has its key, even if its
\* key is shorter than 4 characters; a key of at least 4 characters implies
\* such a name.
C19_ShortNameDiscarded ==
  pc = "limiting" =>
    \A i \in 1..Len(allResults) :
      LET key == NameKey(allResults[i].name)
          IsLong(j) == Len(NormalizedName(allResults[j].name)) >= 4
      IN  /\ ~IsLong(i) =>
               \A u \in 1..Len(uniqueResults) : uniqueResults[u] # allResults[i]
          /\ (IsLong(i) /\ \A j \in 1..(i - 1) : IsLong(j) => NameKey(allResults[j].name) # key) =>
               \E u \in 1..Len(uniqueResults) : uniqueResults[u] = allResults[i]
          /\ Len(key) >= 4 => IsLong(i)

\* C19: "Abc" (normalized name of 3 characters) is dropped without any
\* collision before it, and "A b c." (key "abc" of 3 characters, normalized
\* name "a b c" of 5) is kept
C19_Witness ==
  /\ pc = "limiting"
  /\ \E i, j \in 1..Len(allResults) :
       /\ i < j
       /\ Len(NormalizedName(allResults[i].name)) = 3
       /\ NameKey(allResults[j].name) = NameKey(allResults[i].name)
       /\ Len(NameKey(allResults[j].name)) = 3
       /\ Len(NormalizedName(allResults[j].name)) = 5
       /\ uniqueResults = <<allResults[j]>>

\* C20: no secondary page is fetched for a candidate that has both an email
\* and a phone once the homepage extraction is merged (or had both before
\* the crawl): its crawl never has a secondary page in flight.
C20_StopsEarlyWithEmailAndPhone ==
  pc = "enriching" =>
    \A i \in 1..Len(task) :
      (/\ task[i].phase = "pages"
       /\ finalResults[i].email # <<>> \/ task[i].scraped.emails # <<>>
       /\ finalResults[i].phone # <<>> \/ task[i].scraped.phones # <<>>)
        => task[i].nHeaders + task[i].nBody = 0

\* C16, as stated: isValidPhone, in route.ts as in part_002, accepts a string
\* exactly when its digits number 9 to 15, are not one repeated digit and do
\* not start with two zeros; "111111111" and "000000001" are rejected,
\* "612345678" is accepted.
C16_AcceptsNineToFifteen ==
  call.returned =>
    LET d == SelectSeq(call.arg, LAMBDA c : c \in Digits)
    IN  /\ call.result = (/\ Len(d) \in 9..15
                          /\ \E i \in 1..Len(d) : d[i] # d[1]
                          /\ ~(d[1] = "0" /\ d[2] = "0"))
        /\ call.arg \in {P_Ones, P_ZerosOne} => ~call.result
        /\ call.arg = P_Mobile => call.result

\* C16, amended: isValidPhone of route.ts accepts a string exactly when its
\* digits number 9 to 15, are not one repeated digit and do not start with
\* two zeros; isValidPhone of part_002 accepts exactly when they number 9 to
\* 12, are not one repeated digit and do not start with 123456, 654321,
\* 000000, 111111 or 999999.  Both reject "111111111" and "000000001" and
\* accept "612345678".
C16_AcceptsPerVersion ==
  call.returned =>
    LET d == SelectSeq(call.arg, LAMBDA c : c \in Digits)
        mixed == \E i \in 1..Len(d) : d[i] # d[1]
    IN  /\ call.fn = "isValidPhone" =>
             call.result = (Len(d) \in 9..15 /\ mixed /\ ~(d[1] = "0" /\ d[2] = "0"))
        /\ call.fn = "isValidPhoneV4" =>
             call.result = (/\ Len(d) \in 9..12
                            /\ mixed
                            /\ SubSeq(d, 1, 6) \notin ObviousPhonePrefixes)
        /\ call.arg \in {P_Ones, P_ZerosOne} => ~call.result
        /\ call.arg = P_Mobile => call.result

\* C16: isValidPhone of route.ts has returned true on a string of 15 digits
\* that starts with a single zero
C16_Witness ==
  /\ call.returned
  /\ call.fn = "isValidPhone"
  /\ call.arg = <<"0">> \o DigitRun(14)
  /\ call.result

\* C14: once a request that carries verifyContacts false has been read, no
\* candidate has a website fetch or a domain probe in flight or behind it,
\* and every candidate on its way to the filter and the sort is, field for
\* field, one that a search adapter produced.
C14_NothingEnrichedWithoutVerify ==
  (options.read /\ ~options.verifyContacts) =>
    LET Produced == IF scope \in {"v4", "v4key"}
                    THEN {allResults[k] : k \in 1..Len(allResults)}
                    ELSE UNION {{adapter[a].results[k] : k \in 1..Len(adapter[a].results)} : a \in Adapters}
    IN  /\ \A i \in 1..Len(task) : task[i] = IdleTask
        /\ \A i \in 1..Len(finalResults) :
             /\ finalResults[i] \in Produced
             /\ finalResults[i].websiteStatus = NoStatus

\* C15: once maxResults has been read, the candidates with a website fetch or
\* a probe in flight or behind them are at most maxResults, and so are the
\* results of the response (totalFound is their number).
C15_BoundedByMaxResults ==
  options.read =>
    /\ Cardinality({i \in 1..Len(task) : task[i] # IdleTask}) <= options.maxResults
    /\ Len(response.results) <= options.maxResults

\* C15: once maxResults has been read, the results of the response are at
\* most maxResults in both versions of the route; the candidates handed to
\* the enrichment are at most maxResults in route.ts and at most
\* maxResults + 10 in part_002.
C15_BoundedPerVersion ==
  options.read =>
    /\ Len(response.results) <= options.maxResults
    /\ Len(task) <= IF scope \in {"v4", "v4key"} THEN options.maxResults + 10
                    ELSE options.maxResults

\* C15: part_002 was asked for one result, handed eleven candidates to the
\* enrichment and answered with one
C15_Witness ==
  /\ scope = "v4key"
  /\ pc = "done"
  /\ options.maxResults = 1
  /\ Len(task) = options.maxResults + 10
  /\ Len(uniqueResults) > Len(task)
  /\ response.status = 200
  /\ Len(response.results) = 1

\* C21: every secondary page the crawl of a website fetches has the origin of
\* the candidate's website, whatever kind of href the homepage's anchor has
\* (absolute, a path, protocol-relative, or an absolute URL that has the origin
\* as a prefix of its text)
C21_SameOriginPages ==
  \A i \in 1..Len(task) : \A k \in 1..Len(task[i].pages) :
    Origin(task[i].pages[k]) = Origin(WithScheme(finalResults[i].website))

\* C22: the crawl of a website issues at most 8 secondary-page fetches,
\* however many links and common paths there are; they are all issued in the
\* step that reads the homepage, before any of them settles, and each settles
\* (headers, failure or abort of its own timer, body) on its own, leaving the
\* others in flight
C22_AtMostEightPagesInFlight ==
  [][\A i \in 1..Len(task') :
       /\ Len(task'[i].pages) <= 8
       /\ task'[i].nHeaders + task'[i].nBody <= Len(task'[i].pages)
       /\ (i <= Len(task) /\ task[i].phase = "home_body" /\ task'[i].phase = "pages") =>
            /\ task'[i].nHeaders = Len(task'[i].pages)
            /\ task'[i].nBody = 0
       /\ (i <= Len(task) /\ task[i].phase = "pages" /\ task'[i] # task[i]) =>
            \/ task'[i].nHeaders = task[i].nHeaders - 1 /\ task'[i].nBody = task[i].nBody + 1
            \/ task'[i].nHeaders = task[i].nHeaders - 1 /\ task'[i].nBody = task[i].nBody
            \/ task'[i].nHeaders = task[i].nHeaders /\ task'[i].nBody = task[i].nBody - 1
            \/ task'[i].phase # "pages" /\ task[i].nHeaders + task[i].nBody = 1
  ]_vars

\* The homepage has 9 relevant links besides the 19 common paths: 8 fetches
\* are in flight, all of them for links of the page
C22_Witness ==
  \E i \in 1..Len(task) :
    /\ task[i].phase = "pages"
    /\ task[i].nHeaders = 8
    /\ Len(task[i].pages) = 8
    /\ \A k \in 1..8 : StartsWith(task[i].pages[k], Https \o U_Solvet \o <<"/","i","n","f","o","/">>)

\* C23: when the homepage of a candidate's website cannot be fetched (the
\* fetch fails or is aborted, the status is not OK, the body cannot be read),
\* no secondary page is fetched, no email, phone or owner is filled, and the
\* candidate goes on to the email probe (or straight to the join) with the
\* fields it had; the homepage is read and secondary pages are fetched only
\* under an OK status.  A secondary page that fails changes nothing of what
\* the crawl has collected and leaves the other pages in flight.
C23_OnlyHomepageFailureIsFatal ==
  [][\A i \in 1..Len(task) :
       (pc = "enriching" /\ pc' = "enriching") =>
         /\ task'[i].phase \in {"home_body", "pages"} => IsOk(task'[i].scraped.status)
         /\ (task[i].phase \in {"home_headers", "home_body"} /\ task'[i].phase \notin {"home_headers", "home_body", "pages"}) =>
              /\ task'[i].pages = <<>> /\ task'[i].nHeaders = 0 /\ task'[i].nBody = 0
              /\ task'[i].scraped = [NoScrape EXCEPT !.status = task'[i].scraped.status]
              /\ finalResults'[i] = [finalResults[i] EXCEPT !.websiteStatus = task'[i].scraped.status]
              /\ task'[i].phase = (IF finalResults[i].email # <<>> THEN "probe_https" ELSE "done")
         /\ (task[i].phase = "pages" /\ task'[i].phase = "pages" /\ task'[i].nHeaders + task'[i].nBody < task[i].nHeaders + task[i].nBody) =>
              \/ task'[i].scraped = task[i].scraped
              \/ \E doc \in PageDocs(scope) : task'[i].scraped = AddPage(task[i].scraped, doc)
         /\ (task[i].phase = "pages" /\ task'[i].scraped = task[i].scraped) =>
              /\ task'[i].nHeaders + task'[i].nBody >= task[i].nHeaders + task[i].nBody - 1
              /\ finalResults'[i].email = finalResults[i].email \/ task'[i].phase # "pages"
  ]_vars

\* A candidate that had an email and no phone: its homepage could not be
\* fetched, and it has reached the sort with the email, without a phone or an
\* owner, and with the status 0
C23_Witness ==
  /\ pc = "ranking"
  /\ \E i \in 1..Len(finalResults) :
       /\ finalResults[i].website # <<>>
       /\ finalResults[i].websiteStatus = 0
       /\ finalResults[i].email = M_Ana
       /\ finalResults[i].phone = <<>>
       /\ finalResults[i].owner = <<>>
       /\ task[i].scraped = NoScrape
       /\ task[i].probe # "none"

\* C26: what enrichment assigns to a candidate does not depend on the order
\* in which the secondary pages complete: while two page bodies are awaited,
\* the email, phone and owner the candidate gets are the same whichever of
\* the two arrives first, for any contents of the two pages
C26_CompletionOrderIrrelevant ==
  \A i \in 1..Len(task) :
    (pc = "enriching" /\ task[i].phase = "pages" /\ task[i].nBody >= 2) =>
      \A d1, d2 \in PageDocs(scope) :
        LET one == MergeScraped(finalResults[i], AddPage(AddPage(task[i].scraped, d1), d2))
            other == MergeScraped(finalResults[i], AddPage(AddPage(task[i].scraped, d2), d1))
        IN  one.email = other.email /\ one.phone = other.phone /\ one.owner = other.owner

\* C24: every email and every phone a candidate holds, from the adapters'
\* lists to the answer, is one the version's Validator accepts (isValidEmail,
\* isValidPhone), whichever path recorded it: snippet extraction, directory
\* fields, an AI search's JSON, or the crawl of the website
C24_RecordedContactsValidated ==
  LET Accepted(r) ==
        IF scope \in {"v4", "v4key"}
        THEN /\ r.email = <<>> \/ isValidEmailV4(r.email)
             /\ r.phone = <<>> \/ isValidPhoneV4(r.phone)
        ELSE /\ r.email = <<>> \/ isValidEmail(r.email)
             /\ r.phone = <<>> \/ isValidPhone(r.phone)
  IN  /\ \A i \in 1..Len(allResults) : Accepted(allResults[i])
      /\ \A i \in 1..Len(uniqueResults) : Accepted(uniqueResults[i])
      /\ \A i \in 1..Len(finalResults) : Accepted(finalResults[i])
      /\ \A i \in 1..Len(response.results) : Accepted(response.results[i])

\* An answer of version 4.3.0 that holds a candidate of an AI search whose
\* phone "123" was rejected and whose email was kept after cleaning
C24_Witness ==
  /\ scope = "v4key"
  /\ pc = "done"
  /\ \E i \in 1..Len(response.results) :
       /\ response.results[i].name = T_CasaLuz
       /\ response.results[i].email = M_Ana
       /\ response.results[i].phone = <<>>

C27_VerifiedPhonePresent ==
  \A i \in 1..Len(response.results) :
    response.results[i].phoneVerified => response.results[i].phone # <<>>

\* C28: in every candidate of either handler, from the adapters' lists to the
\* answer, emailVerified is true only when an email is present; and a step of
\* the enrichment that changes a candidate's emailVerified leaves the
\* candidate with a non-empty email
C28_VerifiedEmailPresent ==
  [][LET Holds(rs) == \A i \in 1..Len(rs) : rs[i].emailVerified => rs[i].email # <<>>
     IN  /\ Holds(allResults') /\ Holds(uniqueResults') /\ Holds(finalResults')
         /\ Holds(response'.results)
         /\ (pc' = pc /\ pc \in {"enriching", "scraping"}) =>
              \A i \in 1..Len(finalResults) :
                finalResults'[i].emailVerified # finalResults[i].emailVerified =>
                  finalResults'[i].email # <<>>
  ]_vars

\* Version 4.3.0 has answered with a candidate that had a website and no
\* email: the crawl found the email and set emailVerified with it
C28_Witness ==
  /\ scope \in {"v4", "v4key"}
  /\ pc = "done"
  /\ \E i \in 1..Len(response.results) :
       /\ response.results[i].emailVerified
       /\ response.results[i].email = M_Info
       /\ response.results[i].source = "Web"
       /\ \E k \in 1..Len(uniqueResults) :
            /\ uniqueResults[k].name = response.results[i].name
            /\ uniqueResults[k].email = <<>>
            /\ ~uniqueResults[k].emailVerified

\* C29 as stated: in deduplicateResults of version 4.3.0, of the inputs that
\* share a key exactly one survives, the one with the highest score
\* 10/3/5 and the earliest among equals; and the deduplication after the
\* extended search yields no fewer candidates than the first round
C29_OneSurvivorPerKey ==
  [][LET Same(input, key) == {i \in 1..Len(input) : NameKeyV4(input[i].name) = key}
         Best(input, key) ==
           CHOOSE i \in Same(input, key) : \A j \in Same(input, key) :
             \/ DedupScore(input[i]) > DedupScore(input[j])
             \/ DedupScore(input[i]) = DedupScore(input[j]) /\ i <= j
         OneEach(input, out) ==
           \A i \in 1..Len(input) :
             SelectSeq(out, LAMBDA r : NameKeyV4(r.name) = NameKeyV4(input[i].name))
               = <<input[Best(input, NameKeyV4(input[i].name))]>>
     IN  /\ (scope \in {"v4", "v4key"} /\ pc = "searching" /\ pc' # "searching") =>
              OneEach(Flat(adapter, 1), uniqueResults')
         /\ (scope \in {"v4", "v4key"} /\ pc = "extending" /\ pc' # "extending") =>
              /\ Len(uniqueResults') >= Len(uniqueResults)
              /\ \A items \in ServedV4("searchMoreWithAI") :
                   LET all == uniqueResults \o ParseItems("searchMoreWithAI", items)
                   IN  allResults' = SortedForDedup(all) => OneEach(all, uniqueResults')
  ]_vars

\* C29, amended: of the inputs that share a key of more than three
\* characters exactly one survives, the one with the highest score and the
\* earliest among equals; an input whose key has three characters or fewer
\* never survives; and the deduplication after the extended search yields no
\* fewer candidates than the first round
C29_OneSurvivorPerLongKey ==
  [][LET Same(input, key) == {i \in 1..Len(input) : NameKeyV4(input[i].name) = key}
         Best(input, key) ==
           CHOOSE i \in Same(input, key) : \A j \in Same(input, key) :
             \/ DedupScore(input[i]) > DedupScore(input[j])
             \/ DedupScore(input[i]) = DedupScore(input[j]) /\ i <= j
         OneEachLong(input, out) ==
           \A i \in 1..Len(input) :
             SelectSeq(out, LAMBDA r : NameKeyV4(r.name) = NameKeyV4(input[i].name))
               = IF Len(NameKeyV4(input[i].name)) > 3
                 THEN <<input[Best(input, NameKeyV4(input[i].name))]>>
                 ELSE <<>>
     IN  /\ (scope \in {"v4", "v4key"} /\ pc = "searching" /\ pc' # "searching") =>
              OneEachLong(Flat(adapter, 1), uniqueResults')
         /\ (scope \in {"v4", "v4key"} /\ pc = "extending" /\ pc' # "extending") =>
              /\ Len(uniqueResults') >= Len(uniqueResults)
              /\ \A items \in ServedV4("searchMoreWithAI") :
                   LET all == uniqueResults \o ParseItems("searchMoreWithAI", items)
                   IN  allResults' = SortedForDedup(all) => OneEachLong(all, uniqueResults')
  ]_vars

\* The second deduplication has run on a list in which Bar Uno came twice
\* with the score 0, from the first AI search and from the extended one,
\* below a candidate with a phone, and kept the earlier of the two
C29_Witness ==
  /\ scope \in {"v4", "v4key"}
  /\ pc = "scraping"
  /\ options.maxResults = 31
  /\ \E i, j \in 1..Len(allResults) :
       /\ i < j
       /\ allResults[i].name = T_BarUno /\ allResults[i].source = "OpenAI Search"
       /\ allResults[j].name = T_BarUno /\ allResults[j].source = "AI Extended"
       /\ DedupScore(allResults[i]) = DedupScore(allResults[j])
  /\ Len(SelectSeq(uniqueResults, LAMBDA r : r.name = T_BarUno)) = 1
  /\ \E k \in 1..Len(uniqueResults) :
       uniqueResults[k].name = T_BarUno /\ uniqueResults[k].source = "OpenAI Search"
  /\ \E k \in 1..Len(uniqueResults) : uniqueResults[k].phone # <<>>

\* ------------------------------------------------------------------------
\* The results page (part_001): selection and the contacted bookkeeping
\* ------------------------------------------------------------------------

\* getBusinessKey: the name, the email and the phone joined with hyphens, an
\* absent field as the empty string
getBusinessKey(business) ==
  business.name \o <<"-">> \o business.email \o <<"-">> \o business.phone

\* The answer of /api/scrape the page may be given
ShownResults ==
  << BusinessResult(T_ElSol, M_Info, P_Mobile, TRUE, <<>>, <<>>, "DuckDuckGo"),
     BusinessResult(T_BarUno, <<>>, P_Mobile, TRUE, <<>>, <<>>, "Paginas Amarillas"),
     BusinessResult(T_CasaLuz, M_Ana, <<>>, FALSE, <<>>, <<>>, "Paginas Amarillas") >>

\* A business contacted by phone in an earlier visit and kept in localStorage
EarlierContact == BusinessResult(T_ElSolNorte, <<>>, P_Mobile, TRUE, <<>>, <<>>, "DuckDuckGo")

ContactedBusiness(business, contactMethod) ==
  [business |-> business, contactMethod |-> contactMethod]

\* The page after its first effect has read localStorage: nothing saved, or
\* the ids and details of the earlier visit
Mounted ==
  { [NotMounted EXCEPT !.mounted = TRUE],
    [NotMounted EXCEPT !.mounted = TRUE,
       !.contacted = {getBusinessKey(EarlierContact)},
       !.contactedData = [k \in {getBusinessKey(EarlierContact)} |->
                            ContactedBusiness(EarlierContact, "phone")]] }

InitHome ==
  /\ scope = "home"
  /\ home \in Mounted
  /\ call = NoCall
  /\ silent = {}
  /\ request = [parses |-> TRUE, query |-> TRUE, location |-> TRUE]
  /\ InitCommon

\* The state setters of one event handler take effect together at the next
\* render; the handler touches nothing of the request handler
Render(h) ==
  /\ home' = h
  /\ UNCHANGED <<call, scope, silent, request, options, pc, response, adapter, allResults, uniqueResults, finalResults, task>>

\* handleScrape up to its await, with a query and a location typed in
handleScrape ==
  /\ scope = "home"
  /\ ~home.loading
  /\ Render([home EXCEPT !.loading = TRUE, !.hasResults = FALSE, !.results = <<>>,
                         !.selectedRows = {}, !.selectAll = FALSE])

\* handleScrape after the await: the answer is shown, or an error is and the
\* results stay null
ScrapeSettles ==
  /\ scope = "home"
  /\ home.loading
  /\ \/ \E n \in 0..Len(ShownResults) :
          Render([home EXCEPT !.loading = FALSE, !.hasResults = TRUE,
                              !.results = SubSeq(ShownResults, 1, n)])
     \/ Render([home EXCEPT !.loading = FALSE])

\* markAsContacted as one call computes it from the contacted and
\* contactedData of the render its handler belongs to: the values it hands
\* to setContacted and setContactedData
markAsContacted(closure, business, method) ==
  LET key == getBusinessKey(business)
      existing == IF key \in DOMAIN closure.contactedData
                  THEN closure.contactedData[key].contactMethod ELSE "none"
      contactMethod == IF existing = "email" /\ method = "phone" THEN "both"
                       ELSE IF existing = "phone" /\ method = "email" THEN "both"
                       ELSE method
  IN  [contacted |-> closure.contacted \cup {key},
       contactedData |-> [k \in DOMAIN closure.contactedData \cup {key} |->
                            IF k = key THEN ContactedBusiness(business, contactMethod)
                            ELSE closure.contactedData[k]]]

\* copyToClipboard(text, business, type) from a row that shows the field
copyToClipboard(business, type) ==
  /\ scope = "home"
  /\ home.hasResults
  /\ IF type = "email" THEN business.email # <<>> ELSE business.phone # <<>>
  /\ LET set == markAsContacted(home, business, type)
     IN  Render([home EXCEPT !.contacted = set.contacted, !.contactedData = set.contactedData])

\* toggleRowSelection(business)
toggleRowSelection(business) ==
  /\ scope = "home"
  /\ home.hasResults
  /\ LET key == getBusinessKey(business)
     IN  Render([home EXCEPT !.selectedRows = IF key \in @ THEN @ \ {key} ELSE @ \cup {key}])

\* toggleSelectAll, with the filter on "all" and no text searched: the
\* filtered results are the results
toggleSelectAll ==
  /\ scope = "home"
  /\ home.hasResults
  /\ Render([home EXCEPT
       !.selectedRows = IF home.selectAll THEN {}
                        ELSE {getBusinessKey(home.results[i]) : i \in 1..Len(home.results)},
       !.selectAll = ~home.selectAll])

\* results.results.forEach of markSelectedAsContacted: every call of
\* markAsContacted reads the contacted and contactedData of the same render,
\* and its setters replace what the call before it had set
RECURSIVE forEachSelected(_, _, _)
forEachSelected(results, closure, set) ==
  IF results = <<>> THEN set
  ELSE IF getBusinessKey(Head(results)) \in closure.selectedRows
  THEN forEachSelected(Tail(results), closure,
         markAsContacted(closure, Head(results),
                         IF Head(results).email # <<>> THEN "email" ELSE "phone"))
  ELSE forEachSelected(Tail(results), closure, set)

\* markSelectedAsContacted; its button is rendered while rows are selected
markSelectedAsContacted ==
  /\ scope = "home"
  /\ home.selectedRows # {}
  /\ home.hasResults
  /\ LET set == forEachSelected(home.results, home,
                  [contacted |-> home.contacted, contactedData |-> home.contactedData])
     IN  Render([home EXCEPT !.contacted = set.contacted, !.contactedData = set.contactedData])

\* clearContacted, confirmed
clearContacted ==
  /\ scope = "home"
  /\ Render([home EXCEPT !.contacted = {}, !.contactedData = <<>>])

NextHome ==
  \/ handleScrape
  \/ ScrapeSettles
  \/ \E i \in 1..Len(home.results) : \E type \in {"email", "phone"} :
       copyToClipboard(home.results[i], type)
  \/ \E i \in 1..Len(home.results) : toggleRowSelection(home.results[i])
  \/ toggleSelectAll
  \/ markSelectedAsContacted
  \/ clearContacted

SpecHome == InitHome /\ [][NextHome]_vars

\* C30: when markSelectedAsContacted runs with several rows selected, every
\* selected business is in the contacted set and in contactedData afterwards,
\* and every business contacted before is still in the set
C30_SelectedAllContacted ==
  [][(/\ markSelectedAsContacted
      /\ Cardinality({i \in 1..Len(home.results) :
                        getBusinessKey(home.results[i]) \in home.selectedRows}) >= 2) =>
       /\ \A i \in 1..Len(home.results) :
            getBusinessKey(home.results[i]) \in home.selectedRows =>
              /\ getBusinessKey(home.results[i]) \in home'.contacted
              /\ getBusinessKey(home.results[i]) \in DOMAIN home'.contactedData
       /\ home.contacted \subseteq home'.contacted
  ]_vars

====
